---- MODULE Spec2Model ----
(***************************************************************************)
(* Brand Query Classification Engine and KWatch ingestion queue.           *)
(*                                                                         *)
(* Strings are sequences of one-character strings, so that the lexer, the  *)
(* normalizer and the tokenizer work character by character as the code    *)
(* does.  JavaScript null is the record NULL.                              *)
(***************************************************************************)
EXTENDS Integers, Sequences, FiniteSets, TLC

VARIABLES
    query,              \* parseRule's argument
    parsed,             \* outcome of parseRule(query): [called, threw, ast]
    ruleAst,            \* evaluateRule's first argument
    article,            \* evaluateRule's second argument
    result,             \* outcome of evaluateRule(ruleAst, article): [called, matched, spans]
    tokenized,          \* outcome of the last tokenizeArticle/tokenizePhrase call on article
    csvFile,            \* config/BrandQueries.csv: [readable, rows]
    brandQueries,       \* brandClassifier.js: compiled catalog
    isInitialized,      \* brandClassifier.js: initialization flag
    lastInit,           \* value returned by the last initialize/reload call
    observed,           \* what the last classifyText/getClassifierStatus call saw
    kwatchQueue,        \* kwatchQueue.js: in-memory queue
    isProcessingQueue,  \* kwatchQueue.js: non-reentrancy flag
    drains,             \* processKWatchQueue invocations suspended at an await
    kwatchContainer,    \* raw container: documents whose create was fulfilled
    kwatchProcessedContainer, \* processed container: documents whose create was fulfilled
    nextId,             \* arrival counter standing for generateKWatchId
    lastTick,           \* what the last timer tick found: [busy, pending, started]
    lastBatch,          \* the last finished drain and its 'Batch complete' line
    rawCreates,         \* ids passed to kwatchContainer.items.create, in call order
    processedCreates,   \* ids passed to kwatchProcessedContainer.items.create, in call order
    webhookStatus       \* HTTP status of the last POST /api/webhook/kwatch, 0 before the first

vars == <<query, parsed, ruleAst, article, result, tokenized, csvFile, brandQueries,
          isInitialized, lastInit, observed, kwatchQueue, isProcessingQueue,
          drains, kwatchContainer, kwatchProcessedContainer, nextId, lastTick,
          lastBatch, rawCreates, processedCreates, webhookStatus>>

engineVars == <<query, parsed, ruleAst, article, result, tokenized>>
classifierVars == <<csvFile, brandQueries, isInitialized, lastInit, observed>>
queueVars == <<kwatchQueue, isProcessingQueue, drains, kwatchContainer,
               kwatchProcessedContainer, nextId, lastTick, lastBatch, rawCreates,
               processedCreates, webhookStatus>>

NULL == [type |-> "NULL"]

-----------------------------------------------------------------------------
(* Characters and strings *)

LowerLetters ==
    <<"a","b","c","d","e","f","g","h","i","j","k","l","m",
      "n","o","p","q","r","s","t","u","v","w","x","y","z">>
UpperLetters ==
    <<"A","B","C","D","E","F","G","H","I","J","K","L","M",
      "N","O","P","Q","R","S","T","U","V","W","X","Y","Z">>
Digits == <<"0","1","2","3","4","5","6","7","8","9">>

Range(s) == {s[i] : i \in DOMAIN s}
IndexOf(s, c) == CHOOSE i \in DOMAIN s : s[i] = c

isSpace(c) == c \in {" ", "\t", "\n", "\r"}
isDigit(c) == c \in Range(Digits)
isLower(c) == c \in Range(LowerLetters)

\* String.prototype.toLowerCase / toUpperCase on one character
toLowerCase(c) ==
    IF c \in Range(UpperLetters) THEN LowerLetters[IndexOf(UpperLetters, c)]
    ELSE IF c = "É" THEN "é" ELSE c
toUpperCase(c) ==
    IF c \in Range(LowerLetters) THEN UpperLetters[IndexOf(LowerLetters, c)]
    ELSE IF c = "é" THEN "É" ELSE c

MapSeq(s, Op(_)) == [i \in DOMAIN s |-> Op(s[i])]

RECURSIVE Flatten(_)
Flatten(ss) == IF ss = <<>> THEN <<>> ELSE Head(ss) \o Flatten(Tail(ss))

\* normalize("NFD") followed by the removal of U+0300..U+036F
stripDiacritics(c) == IF c = "é" THEN <<"e">> ELSE <<c>>

startsWith(s, p) == Len(p) <= Len(s) /\ SubSeq(s, 1, Len(p)) = p
endsWith(s, p) == Len(p) <= Len(s) /\ SubSeq(s, Len(s) - Len(p) + 1, Len(s)) = p

\* s.replace(/\s+/g, " "): every run of whitespace becomes one space
RECURSIVE collapseSpaces(_)
collapseSpaces(s) ==
    IF s = <<>> THEN <<>>
    ELSE IF isSpace(Head(s))
         THEN IF Len(s) > 1 /\ isSpace(s[2])
              THEN collapseSpaces(Tail(s))
              ELSE <<" ">> \o collapseSpaces(Tail(s))
         ELSE <<Head(s)>> \o collapseSpaces(Tail(s))

\* s.replace(/[^a-z0-9@#\s]+/g, " "): every run of other characters becomes one space
isKept(c) == isLower(c) \/ isDigit(c) \/ c \in {"@", "#"} \/ isSpace(c)
RECURSIVE replacePunctuation(_)
replacePunctuation(s) ==
    IF s = <<>> THEN <<>>
    ELSE IF ~isKept(Head(s))
         THEN IF Len(s) > 1 /\ ~isKept(s[2])
              THEN replacePunctuation(Tail(s))
              ELSE <<" ">> \o replacePunctuation(Tail(s))
         ELSE <<Head(s)>> \o replacePunctuation(Tail(s))

RECURSIVE trimStart(_)
trimStart(s) == IF s # <<>> /\ isSpace(Head(s)) THEN trimStart(Tail(s)) ELSE s
RECURSIVE trimEnd(_)
trimEnd(s) ==
    IF s # <<>> /\ isSpace(s[Len(s)]) THEN trimEnd(SubSeq(s, 1, Len(s) - 1)) ELSE s
trim(s) == trimEnd(trimStart(s))

normalizeText(text) ==
    IF text = <<>> THEN <<>>
    ELSE LET lower == MapSeq(text, toLowerCase)
             stripped == Flatten(MapSeq(lower, stripDiacritics))
             cleaned == replacePunctuation(stripped)
         IN  trim(collapseSpaces(cleaned))

\* s.split(" ")
RECURSIVE split(_, _)
split(s, cur) ==
    IF s = <<>> THEN <<cur>>
    ELSE IF Head(s) = " " THEN <<cur>> \o split(Tail(s), <<>>)
         ELSE split(Tail(s), Append(cur, Head(s)))

\* a replace that removes only the last '@' or '#' of the token
stripTrailingMarks_LastOnly(token) ==
    IF token # <<>> /\ token[Len(token)] \in {"@", "#"}
    THEN SubSeq(token, 1, Len(token) - 1)
    ELSE token

\* token.replace(/[@#]+$/, '')
RECURSIVE stripTrailingMarks(_)
stripTrailingMarks(token) ==
    IF token # <<>> /\ token[Len(token)] \in {"@", "#"}
    THEN stripTrailingMarks(SubSeq(token, 1, Len(token) - 1))
    ELSE token

cleanToken(token) ==
    IF token = <<"@">> \/ token = <<"#">> THEN <<>>
    ELSE IF (startsWith(token, <<"@">>) \/ startsWith(token, <<"#">>)) /\ Len(token) > 1
         THEN token
         ELSE stripTrailingMarks(token)

tokenizeArticle(text) ==
    LET normalized == normalizeText(text)
    IN  IF normalized = <<>> THEN <<>>
        ELSE SelectSeq(MapSeq(split(normalized, <<>>), cleanToken), LAMBDA t : Len(t) > 0)

tokenizePhrase(phrase) ==
    LET normalized == normalizeText(phrase)
    IN  IF normalized = <<>> THEN <<>>
        ELSE SelectSeq(MapSeq(split(normalized, <<>>), cleanToken), LAMBDA t : Len(t) > 0)

-----------------------------------------------------------------------------
(* Query lexer *)

Tok(type, value, distance) == [type |-> type, value |-> value, distance |-> distance]

isBareEnd(c) == isSpace(c) \/ c \in {"(", ")", "\"", "'"}

\* first index >= i holding the closing quote, or Len(query) + 1
RECURSIVE scanQuoted(_, _, _)
scanQuoted(q, i, quote) ==
    IF i <= Len(q) /\ q[i] # quote THEN scanQuoted(q, i + 1, quote) ELSE i

\* first index >= i holding whitespace, a parenthesis or a quote, or Len(query) + 1
RECURSIVE scanBare(_, _)
scanBare(q, i) ==
    IF i <= Len(q) /\ ~isBareEnd(q[i]) THEN scanBare(q, i + 1) ELSE i

allDigits(s) == s # <<>> /\ \A i \in DOMAIN s : isDigit(s[i])

\* parseInt(s, 10) on a string of decimal digits
RECURSIVE parseInt(_)
parseInt(s) ==
    IF s = <<>> THEN 0
    ELSE 10 * parseInt(SubSeq(s, 1, Len(s) - 1)) + (IndexOf(Digits, s[Len(s)]) - 1)

\* /^NEAR\/\d+$/i.test(buf)
isNearSlash(buf) ==
    /\ Len(buf) > 5
    /\ MapSeq(SubSeq(buf, 1, 5), toUpperCase) = <<"N","E","A","R","/">>
    /\ allDigits(SubSeq(buf, 6, Len(buf)))

\* /^\/(\d+)$/.test(value)
isSlashNumber(value) ==
    Len(value) > 1 /\ value[1] = "/" /\ allDigits(SubSeq(value, 2, Len(value)))

bareToken(buf) ==
    LET upper == MapSeq(buf, toUpperCase)
    IN  IF upper = <<"A","N","D">> THEN Tok("AND", <<>>, 0)
        ELSE IF upper = <<"O","R">> THEN Tok("OR", <<>>, 0)
        ELSE IF upper = <<"N","O","T">> THEN Tok("NOT", <<>>, 0)
        ELSE IF isNearSlash(buf) THEN Tok("NEAR", <<>>, parseInt(SubSeq(buf, 6, Len(buf))))
        ELSE IF upper = <<"N","E","A","R">> THEN Tok("NEAR_WORD", <<>>, 0)
        ELSE Tok("TERM", buf, 0)

\* the while loop of tokenizeQuery from position i (1-based) with tokens collected so far
RECURSIVE lexFrom(_, _, _)
lexFrom(q, i, tokens) ==
    IF i > Len(q) THEN [threw |-> FALSE, tokens |-> tokens]
    ELSE LET ch == q[i] IN
         IF isSpace(ch) THEN lexFrom(q, i + 1, tokens)
         ELSE IF ch = "(" THEN lexFrom(q, i + 1, Append(tokens, Tok("LPAREN", <<>>, 0)))
         ELSE IF ch = ")" THEN lexFrom(q, i + 1, Append(tokens, Tok("RPAREN", <<>>, 0)))
         ELSE IF ch = "\"" \/ ch = "'"
              THEN LET j == scanQuoted(q, i + 1, ch) IN
                   IF j > Len(q) THEN [threw |-> TRUE, tokens |-> <<>>]
                   ELSE lexFrom(q, j + 1,
                                Append(tokens, Tok("PHRASE", SubSeq(q, i + 1, j - 1), 0)))
              ELSE LET j == scanBare(q, i) IN
                   lexFrom(q, j, Append(tokens, bareToken(SubSeq(q, i, j - 1))))

tokenizeQuery(q) == lexFrom(q, 1, <<>>)

-----------------------------------------------------------------------------
(* Parser: every parse function takes the token list and the position pos  *)
(* (0-based, as in the code) and returns the node, the new position and    *)
(* whether it threw.                                                        *)

Ok(node, pos) == [node |-> node, pos |-> pos, threw |-> FALSE]
Throw == [node |-> NULL, pos |-> 0, threw |-> TRUE]

\* tokens[pos], undefined past the end
peek(tokens, pos) == IF pos < Len(tokens) THEN tokens[pos + 1] ELSE NULL

TermNode(value) == [type |-> "TERM", value |-> value]
WildcardNode(prefix) == [type |-> "WILDCARD", prefix |-> prefix]
PhraseNode(tokens) == [type |-> "PHRASE", tokens |-> tokens]
NotNode(child) == [type |-> "NOT", child |-> child]
AndNode(left, right) == [type |-> "AND", left |-> left, right |-> right]
OrNode(left, right) == [type |-> "OR", left |-> left, right |-> right]
NearNode(distance, left, right) ==
    [type |-> "NEAR", distance |-> distance, left |-> left, right |-> right]

RECURSIVE parsePrimary(_, _), parseUnary(_, _), parseNear(_, _), parseAnd(_, _),
          parseOr(_, _), parseNearLoop(_, _, _), parseAndLoop(_, _, _),
          parseOrLoop(_, _, _)

\* expect("RPAREN") after a parenthesised expression
expectRParen(tokens, expr) ==
    IF expr.threw THEN Throw
    ELSE IF peek(tokens, expr.pos).type = "RPAREN" THEN Ok(expr.node, expr.pos + 1)
    ELSE Throw

parsePrimary(tokens, pos) ==
    LET tok == peek(tokens, pos) IN
    IF tok = NULL THEN Ok(NULL, pos)
    ELSE IF tok.type = "LPAREN" THEN expectRParen(tokens, parseOr(tokens, pos + 1))
    ELSE IF tok.type = "PHRASE" THEN Ok(PhraseNode(tokenizePhrase(tok.value)), pos + 1)
    ELSE IF tok.type = "TERM"
         THEN LET raw == tok.value IN
              IF endsWith(raw, <<"*">>)
              THEN Ok(WildcardNode(normalizeText(SubSeq(raw, 1, Len(raw) - 1))), pos + 1)
              ELSE Ok(TermNode(normalizeText(raw)), pos + 1)
    ELSE Ok(NULL, pos)

\* if (!child) throw ...; return { type: "NOT", child }
notOperand(child) ==
    IF child.threw \/ child.node = NULL THEN Throw
    ELSE Ok(NotNode(child.node), child.pos)

parseUnary(tokens, pos) ==
    LET tok == peek(tokens, pos) IN
    IF tok # NULL /\ tok.type = "NOT"
    THEN notOperand(parseUnary(tokens, pos + 1))
    ELSE parsePrimary(tokens, pos)

DEFAULT_NEAR_DISTANCE == 9

\* if (!right) throw ...; node = { type: "NEAR", distance, left: node, right }; continue
nearOperand(tokens, node, distance, right) ==
    IF right.threw \/ right.node = NULL THEN Throw
    ELSE parseNearLoop(tokens, NearNode(distance, node, right.node), right.pos)

\* the loop of parseNear without the two-token form 'NEAR /N'
parseNearLoop_NoSlashForm(tokens, node, pos) ==
    LET tok == peek(tokens, pos) IN
    IF tok # NULL /\ tok.type \in {"NEAR", "NEAR_WORD"}
    THEN nearOperand(tokens, node,
                     IF tok.type = "NEAR" THEN tok.distance ELSE DEFAULT_NEAR_DISTANCE,
                     parseUnary(tokens, pos + 1))
    ELSE Ok(node, pos)

parseNearLoop(tokens, node, pos) ==
    LET tok == peek(tokens, pos) IN
    IF tok # NULL /\ tok.type \in {"NEAR", "NEAR_WORD"}
    THEN LET next == peek(tokens, pos + 1)
             slashForm == /\ tok.type = "NEAR_WORD"
                          /\ next # NULL /\ next.type = "TERM" /\ isSlashNumber(next.value)
             distance == IF tok.type = "NEAR" THEN tok.distance
                         ELSE IF slashForm
                              THEN parseInt(SubSeq(next.value, 2, Len(next.value)))
                              ELSE DEFAULT_NEAR_DISTANCE
         IN  nearOperand(tokens, node, distance,
                         parseUnary(tokens, IF slashForm THEN pos + 2 ELSE pos + 1))
    ELSE Ok(node, pos)

\* let node = parseUnary(); while (true) ...
nearLoopFrom(tokens, first) ==
    IF first.threw THEN Throw ELSE parseNearLoop(tokens, first.node, first.pos)

parseNear(tokens, pos) == nearLoopFrom(tokens, parseUnary(tokens, pos))

\* if (!right) throw ...; node = { type: "AND", left: node, right }; continue
andOperand(tokens, node, right) ==
    IF right.threw \/ right.node = NULL THEN Throw
    ELSE parseAndLoop(tokens, AndNode(node, right.node), right.pos)

\* the loop of parseAnd that goes on at an AND token only
parseAndLoop_ExplicitOnly(tokens, node, pos) ==
    LET tok == peek(tokens, pos) IN
    IF tok # NULL /\ tok.type = "AND"
    THEN andOperand(tokens, node, parseNear(tokens, pos + 1))
    ELSE Ok(node, pos)

parseAndLoop(tokens, node, pos) ==
    LET tok == peek(tokens, pos) IN
    IF tok # NULL /\ tok.type \in {"AND", "NOT"}
    THEN andOperand(tokens, node,
                    parseNear(tokens, IF tok.type = "AND" THEN pos + 1 ELSE pos))
    ELSE Ok(node, pos)

\* let node = parseNear(); while (true) ...
andLoopFrom(tokens, first) ==
    IF first.threw THEN Throw ELSE parseAndLoop(tokens, first.node, first.pos)

parseAnd(tokens, pos) == andLoopFrom(tokens, parseNear(tokens, pos))

\* the OR branch without the test 'if (!right) throw'
orOperand_NoRightCheck(tokens, node, right) ==
    IF right.threw THEN Throw
    ELSE parseOrLoop(tokens, OrNode(node, right.node), right.pos)

\* if (!right) throw ...; node = { type: "OR", left: node, right }; continue
orOperand(tokens, node, right) ==
    IF right.threw \/ right.node = NULL THEN Throw
    ELSE parseOrLoop(tokens, OrNode(node, right.node), right.pos)

\* the right operand of OR taken as the last of the expression: right-associative
orOperand_RightAssoc(tokens, node, right) ==
    IF right.threw \/ right.node = NULL THEN Throw
    ELSE Ok(OrNode(node, right.node), right.pos)

\* parseOr whose right operand is a whole OR expression
parseOrLoop_RightAssoc(tokens, node, pos) ==
    LET tok == peek(tokens, pos) IN
    IF tok # NULL /\ tok.type = "OR"
    THEN orOperand_RightAssoc(tokens, node, parseOr(tokens, pos + 1))
    ELSE Ok(node, pos)

parseOrLoop(tokens, node, pos) ==
    LET tok == peek(tokens, pos) IN
    IF tok # NULL /\ tok.type = "OR"
    THEN orOperand(tokens, node, parseAnd(tokens, pos + 1))
    ELSE Ok(node, pos)

\* let node = parseAnd(); while (true) ...
orLoopFrom(tokens, first) ==
    IF first.threw THEN Throw ELSE parseOrLoop(tokens, first.node, first.pos)

parseOr(tokens, pos) == orLoopFrom(tokens, parseAnd(tokens, pos))

\* const ast = parseOr(); if (pos !== tokens.length) throw ...
parseRoot(tokens, root) ==
    IF root.threw \/ root.pos # Len(tokens) THEN [threw |-> TRUE, ast |-> NULL]
    ELSE [threw |-> FALSE, ast |-> root.node]

\* parseRule(query): [threw, ast]
parseRule(q) ==
    LET lexed == tokenizeQuery(q) IN
    IF lexed.threw THEN [threw |-> TRUE, ast |-> NULL]
    ELSE parseRoot(lexed.tokens, parseOr(lexed.tokens, 0))

-----------------------------------------------------------------------------
(* Matching primitives: spans are pairs <<start, end>> over 0-based token   *)
(* positions, kept in the order the code pushes them.                       *)

hasMarkPrefix(s) == startsWith(s, <<"@">>) \/ startsWith(s, <<"#">>)

\* the token test that lets a prefixed term match the bare token too
tokenMatches_PrefixOptional(value, tok) ==
    IF hasMarkPrefix(value) THEN tok = value \/ tok = Tail(value)
    ELSE tok = value \/ tok = <<"@">> \o value \/ tok = <<"#">> \o value

\* tok === value, or (for an unprefixed value) tok === "@" + value or "#" + value
tokenMatches(value, tok) ==
    IF hasMarkPrefix(value) THEN tok = value
    ELSE tok = value \/ tok = <<"@">> \o value \/ tok = <<"#">> \o value

\* tok.startsWith(prefix), or (for an unprefixed prefix) with "@" or "#" before it
tokenStartsWith(prefix, tok) ==
    IF hasMarkPrefix(prefix) THEN startsWith(tok, prefix)
    ELSE \/ startsWith(tok, prefix)
         \/ startsWith(tok, <<"@">> \o prefix)
         \/ startsWith(tok, <<"#">> \o prefix)

\* tokens.forEach of matchTerm from index i (1-based here, idx = i - 1)
RECURSIVE termFrom(_, _, _)
termFrom(value, tokens, i) ==
    IF i > Len(tokens) THEN <<>>
    ELSE (IF tokenMatches(value, tokens[i]) THEN <<(<<i - 1, i>>)>> ELSE <<>>)
         \o termFrom(value, tokens, i + 1)

matchTerm(value, tokens) == termFrom(value, tokens, 1)

\* matchWildcard that pushes [idx + 1, idx + 2] for the token at idx
RECURSIVE wildcardFrom_OneBased(_, _, _)
wildcardFrom_OneBased(prefix, tokens, i) ==
    IF i > Len(tokens) THEN <<>>
    ELSE (IF tokenStartsWith(prefix, tokens[i]) THEN <<(<<i, i + 1>>)>> ELSE <<>>)
         \o wildcardFrom_OneBased(prefix, tokens, i + 1)

\* tokens.forEach of matchWildcard from index i (1-based here, idx = i - 1)
RECURSIVE wildcardFrom(_, _, _)
wildcardFrom(prefix, tokens, i) ==
    IF i > Len(tokens) THEN <<>>
    ELSE (IF tokenStartsWith(prefix, tokens[i]) THEN <<(<<i - 1, i>>)>> ELSE <<>>)
         \o wildcardFrom(prefix, tokens, i + 1)

matchWildcard(prefix, tokens) == wildcardFrom(prefix, tokens, 1)

\* the for loop of matchPhrase from start index i (0-based)
RECURSIVE phraseFrom(_, _, _)
phraseFrom(phraseTokens, tokens, i) ==
    IF i > Len(tokens) - Len(phraseTokens) THEN <<>>
    ELSE (IF \A j \in 1..Len(phraseTokens) : tokenMatches(phraseTokens[j], tokens[i + j])
          THEN <<(<<i, i + Len(phraseTokens)>>)>> ELSE <<>>)
         \o phraseFrom(phraseTokens, tokens, i + 1)

matchPhrase(phraseTokens, tokens) ==
    IF Len(phraseTokens) = 0 THEN <<>> ELSE phraseFrom(phraseTokens, tokens, 0)

\* spanDistance that measures from the far ends when b lies before a
spanDistance_FarEnds(a, b) ==
    IF a[2] <= b[1] THEN b[1] - a[2]
    ELSE IF b[2] <= a[1] THEN a[2] - b[1]
    ELSE 0

spanDistance(a, b) ==
    IF a[2] <= b[1] THEN b[1] - a[2]
    ELSE IF b[2] <= a[1] THEN a[1] - b[2]
    ELSE 0

Min(x, y) == IF x <= y THEN x ELSE y
Max(x, y) == IF x >= y THEN x ELSE y

\* the inner forEach of combineNearSpans for one left span
RECURSIVE nearRow(_, _, _)
nearRow(ls, rightSpans, distance) ==
    IF rightSpans = <<>> THEN <<>>
    ELSE LET rs == Head(rightSpans) IN
         (IF spanDistance(ls, rs) <= distance
          THEN <<(<<Min(ls[1], rs[1]), Max(ls[2], rs[2])>>)>> ELSE <<>>)
         \o nearRow(ls, Tail(rightSpans), distance)

RECURSIVE combineNearSpans(_, _, _)
combineNearSpans(leftSpans, rightSpans, distance) ==
    IF leftSpans = <<>> THEN <<>>
    ELSE nearRow(Head(leftSpans), rightSpans, distance)
         \o combineNearSpans(Tail(leftSpans), rightSpans, distance)

-----------------------------------------------------------------------------
(* Evaluation *)

Eval(matched, spans, hasPositive) ==
    [matched |-> matched, spans |-> spans, hasPositive |-> hasPositive]

RECURSIVE evaluatePositive(_, _)
evaluatePositive(node, tokens) ==
    IF node = NULL THEN Eval(TRUE, <<>>, FALSE)
    ELSE IF node.type = "TERM"
         THEN LET spans == matchTerm(node.value, tokens)
              IN  Eval(Len(spans) > 0, spans, TRUE)
    ELSE IF node.type = "WILDCARD"
         THEN LET spans == matchWildcard(node.prefix, tokens)
              IN  Eval(Len(spans) > 0, spans, TRUE)
    ELSE IF node.type = "PHRASE"
         THEN LET spans == matchPhrase(node.tokens, tokens)
              IN  Eval(Len(spans) > 0, spans, TRUE)
    ELSE IF node.type = "NOT"
         THEN LET child == evaluatePositive(node.child, tokens)
              IN  Eval(TRUE, <<>>, child.hasPositive)
    ELSE LET left == evaluatePositive(node.left, tokens)
             right == evaluatePositive(node.right, tokens)
         IN  IF node.type = "AND"
             THEN Eval(left.matched /\ right.matched, left.spans \o right.spans,
                       left.hasPositive \/ right.hasPositive)
             ELSE IF node.type = "OR"
             THEN Eval(left.matched \/ right.matched,
                       (IF left.matched THEN left.spans ELSE <<>>)
                           \o (IF right.matched THEN right.spans ELSE <<>>),
                       left.hasPositive \/ right.hasPositive)
             ELSE LET spans == IF left.matched /\ right.matched
                               THEN combineNearSpans(left.spans, right.spans, node.distance)
                               ELSE <<>>
                  IN  Eval(Len(spans) > 0, spans, TRUE)

\* checkForbidden that treats OR structurally: a NOT under an OR is not looked at
RECURSIVE checkForbidden_SkipOr(_, _)
checkForbidden_SkipOr(node, tokens) ==
    IF node = NULL THEN FALSE
    ELSE IF node.type = "NOT" THEN evaluatePositive(node.child, tokens).matched
    ELSE IF node.type \in {"AND", "NEAR"}
         THEN checkForbidden_SkipOr(node.left, tokens)
              \/ checkForbidden_SkipOr(node.right, tokens)
    ELSE FALSE

RECURSIVE checkForbidden(_, _)
checkForbidden(node, tokens) ==
    IF node = NULL THEN FALSE
    ELSE IF node.type = "NOT" THEN evaluatePositive(node.child, tokens).matched
    ELSE IF node.type \in {"AND", "OR", "NEAR"}
         THEN checkForbidden(node.left, tokens) \/ checkForbidden(node.right, tokens)
    ELSE FALSE

\* a[0] - b[0] || a[1] - b[1] is negative or zero: a does not sort after b
spanLeq(a, b) == a[1] < b[1] \/ (a[1] = b[1] /\ a[2] <= b[2])

\* spans.slice().sort(...): stable insertion of each span into the sorted prefix
RECURSIVE insertSpan(_, _)
insertSpan(sorted, sp) ==
    IF sorted = <<>> THEN <<sp>>
    ELSE IF spanLeq(sorted[Len(sorted)], sp) THEN Append(sorted, sp)
    ELSE Append(insertSpan(SubSeq(sorted, 1, Len(sorted) - 1), sp), sorted[Len(sorted)])

RECURSIVE sortSpans(_)
sortSpans(spans) ==
    IF spans = <<>> THEN <<>>
    ELSE insertSpan(sortSpans(SubSeq(spans, 1, Len(spans) - 1)), spans[Len(spans)])

\* the for loop of mergeSpans folding overlapping spans only, not touching ones
RECURSIVE mergeFrom_OverlapOnly(_, _, _)
mergeFrom_OverlapOnly(sorted, i, merged) ==
    IF i > Len(sorted) THEN merged
    ELSE LET cur == sorted[i]
             last == merged[Len(merged)]
         IN  IF cur[1] < last[2]
             THEN mergeFrom_OverlapOnly(sorted, i + 1,
                      [merged EXCEPT ![Len(merged)] = <<last[1], Max(last[2], cur[2])>>])
             ELSE mergeFrom_OverlapOnly(sorted, i + 1, Append(merged, cur))

\* the for loop of mergeSpans: fold sorted[i..] into merged
RECURSIVE mergeFrom(_, _, _)
mergeFrom(sorted, i, merged) ==
    IF i > Len(sorted) THEN merged
    ELSE LET cur == sorted[i]
             last == merged[Len(merged)]
         IN  IF cur[1] <= last[2]
             THEN mergeFrom(sorted, i + 1,
                      [merged EXCEPT ![Len(merged)] = <<last[1], Max(last[2], cur[2])>>])
             ELSE mergeFrom(sorted, i + 1, Append(merged, cur))

mergeSpans(spans) ==
    IF Len(spans) = 0 THEN <<>>
    ELSE LET sorted == sortSpans(spans) IN mergeFrom(sorted, 2, <<sorted[1]>>)

\* evaluateRule that lets a positive match stand against a veto
evaluateRule_PositiveWins(ast, text) ==
    LET tokens == tokenizeArticle(text)
        forbids == checkForbidden(ast, tokens)
        positive == evaluatePositive(ast, tokens)
    IN  IF forbids /\ ~(positive.hasPositive /\ positive.matched)
        THEN [matched |-> FALSE, spans |-> <<>>]
        ELSE IF positive.hasPositive
             THEN [matched |-> positive.matched,
                   spans |-> IF positive.matched THEN mergeSpans(positive.spans) ELSE <<>>]
             ELSE [matched |-> TRUE, spans |-> <<>>]

\* evaluateRule that reports the positive pass of a rule made of negations as no match
evaluateRule_NegationNoMatch(ast, text) ==
    LET tokens == tokenizeArticle(text)
        forbids == checkForbidden(ast, tokens)
        positive == evaluatePositive(ast, tokens)
    IN  IF forbids THEN [matched |-> FALSE, spans |-> <<>>]
        ELSE IF positive.hasPositive
             THEN [matched |-> positive.matched /\ positive.spans # <<>>,
                   spans |-> IF positive.matched THEN mergeSpans(positive.spans) ELSE <<>>]
             ELSE [matched |-> TRUE, spans |-> <<>>]

evaluateRule(ast, text) ==
    LET tokens == tokenizeArticle(text)
        forbids == checkForbidden(ast, tokens)
        positive == evaluatePositive(ast, tokens)
    IN  IF forbids THEN [matched |-> FALSE, spans |-> <<>>]
        ELSE IF positive.hasPositive
             THEN [matched |-> positive.matched,
                   spans |-> IF positive.matched THEN mergeSpans(positive.spans) ELSE <<>>]
             ELSE [matched |-> TRUE, spans |-> <<>>]

-----------------------------------------------------------------------------
(* brandClassifier.js: the catalog and classifyText.  A text argument is    *)
(* [kind, chars]: kind is the JavaScript typeof, chars the characters of a  *)
(* string.                                                                  *)

Str(chars) == [kind |-> "string", chars |-> chars]
NonString(kind) == [kind |-> kind, chars |-> <<>>]

\* !text || typeof text !== 'string' || text.trim() === ''
isBlank(text) == text.kind # "string" \/ text.chars = <<>> \/ trim(text.chars) = <<>>

\* one row of rows.map: the entry built from the row and the outcome p of
\* parseRule(queryText); ast stays null when parseRule threw
rowEntry(row, p) ==
    [entry |-> [topic |-> row.topic, subTopic |-> row.subTopic,
                queryName |-> row.queryName, internalId |-> row.internalId,
                queryText |-> row.queryText,
                ast |-> IF p.threw THEN NULL ELSE p.ast],
     threw |-> p.threw]

compileRow(row) == rowEntry(row, parseRule(row.queryText))

\* .filter(q => q.ast !== null)
RECURSIVE keepParsed(_)
keepParsed(outcomes) ==
    IF outcomes = <<>> THEN <<>>
    ELSE IF Head(outcomes).entry.ast # NULL
         THEN <<Head(outcomes).entry>> \o keepParsed(Tail(outcomes))
         ELSE keepParsed(Tail(outcomes))

\* parseFailCount: the rows whose parseRule threw
RECURSIVE countThrown(_)
countThrown(outcomes) ==
    IF outcomes = <<>> THEN 0
    ELSE (IF Head(outcomes).threw THEN 1 ELSE 0) + countThrown(Tail(outcomes))

InitFailed == [success |-> FALSE, queryCount |-> 0, parseSuccessCount |-> 0,
               parseFailCount |-> 0]

\* the module state and the returned value once every row has been tried
loaded(outcomes) ==
    [brandQueries |-> keepParsed(outcomes), isInitialized |-> TRUE,
     ret |-> [success |-> TRUE, queryCount |-> Len(keepParsed(outcomes)),
              parseSuccessCount |-> Len(outcomes) - countThrown(outcomes),
              parseFailCount |-> countThrown(outcomes)]]

\* initializeBrandClassifier that gives up on the first row parseRule rejects
initializeBrandClassifier_AbortOnBadRow(state, file) ==
    IF state.isInitialized
    THEN [brandQueries |-> state.brandQueries, isInitialized |-> TRUE,
          ret |-> [success |-> TRUE, queryCount |-> Len(state.brandQueries),
                   parseSuccessCount |-> 0, parseFailCount |-> 0]]
    ELSE IF ~file.readable
            \/ \E i \in DOMAIN file.rows : parseRule(file.rows[i].queryText).threw
    THEN [brandQueries |-> state.brandQueries, isInitialized |-> FALSE, ret |-> InitFailed]
    ELSE loaded([i \in DOMAIN file.rows |-> compileRow(file.rows[i])])

\* initializeBrandClassifier on the module state [brandQueries, isInitialized] and the
\* catalog file: the new module state and the returned value ret
initializeBrandClassifier(state, file) ==
    IF state.isInitialized
    THEN [brandQueries |-> state.brandQueries, isInitialized |-> TRUE,
          ret |-> [success |-> TRUE, queryCount |-> Len(state.brandQueries),
                   parseSuccessCount |-> 0, parseFailCount |-> 0]]
    ELSE IF ~file.readable
    THEN [brandQueries |-> state.brandQueries, isInitialized |-> FALSE, ret |-> InitFailed]
    ELSE loaded([i \in DOMAIN file.rows |-> compileRow(file.rows[i])])

reloadQueries(state, file) ==
    initializeBrandClassifier([brandQueries |-> <<>>, isInitialized |-> FALSE], file)

NotMatched == [matched |-> FALSE, classification |-> NULL]

classificationOf(q) ==
    [topic |-> q.topic, subTopic |-> q.subTopic, queryName |-> q.queryName,
     internalId |-> q.internalId]

\* the for loop of classifyText, but a later matching rule replaces an earlier one
RECURSIVE classifyFrom_LastMatch(_, _, _, _)
classifyFrom_LastMatch(queries, i, chars, evaluated) ==
    IF i > Len(queries) THEN NotMatched @@ [evaluated |-> evaluated]
    ELSE IF classifyFrom_LastMatch(queries, i + 1, chars, evaluated + 1).matched
         THEN classifyFrom_LastMatch(queries, i + 1, chars, evaluated + 1)
         ELSE IF evaluateRule(queries[i].ast, chars).matched
              THEN [matched |-> TRUE, classification |-> classificationOf(queries[i]),
                    evaluated |-> evaluated + 1]
              ELSE NotMatched @@ [evaluated |-> evaluated + 1]

\* the for loop of classifyText from catalog index i, after `evaluated` evaluateRule calls
RECURSIVE classifyFrom(_, _, _, _)
classifyFrom(queries, i, chars, evaluated) ==
    IF i > Len(queries) THEN NotMatched @@ [evaluated |-> evaluated]
    ELSE IF evaluateRule(queries[i].ast, chars).matched
         THEN [matched |-> TRUE, classification |-> classificationOf(queries[i]),
               evaluated |-> evaluated + 1]
         ELSE classifyFrom(queries, i + 1, chars, evaluated + 1)

\* classifyText without the test for empty, whitespace-only and non-string text
classifyText_NoBlankCheck(initialized, queries, text) ==
    IF ~initialized THEN NotMatched @@ [evaluated |-> 0]
    ELSE classifyFrom(queries, 1, text.chars, 0)

\* classifyText(text): [matched, classification] and the number of rules evaluated
classifyText(initialized, queries, text) ==
    IF ~initialized THEN NotMatched @@ [evaluated |-> 0]
    ELSE IF isBlank(text) THEN NotMatched @@ [evaluated |-> 0]
    ELSE classifyFrom(queries, 1, text.chars, 0)

getClassifierStatus(initialized, queries) ==
    [initialized |-> initialized, queryCount |-> Len(queries)]

-----------------------------------------------------------------------------
(* kwatchQueue.js and the webhook route.  A webhook body is a record of the *)
(* fields the handler reads; content is a character sequence, the other     *)
(* fields are strings, and "" or <<>> stands for a field that is absent or  *)
(* empty (both are falsy).  A drain is [batch, raw, processed]: the batch   *)
(* it spliced off, the state of each raw create, and the state of each      *)
(* classifyAndPushIfMatched call.                                           *)

BATCH_SIZE == 10

\* a check that forgets the author
missingFields_AuthorOptional(payload) ==
    \/ payload.platform = "" \/ payload.query = "" \/ payload.datetime = ""
    \/ payload.link = "" \/ payload.content = <<>>

\* !payload.platform || !payload.query || ... || !payload.content
missingFields(payload) ==
    \/ payload.platform = "" \/ payload.query = "" \/ payload.datetime = ""
    \/ payload.link = "" \/ payload.author = "" \/ payload.content = <<>>

\* the document the handler builds; now stands for new Date().toISOString()
kwatchDocument(uniqueId, payload, now) ==
    [id |-> uniqueId, platform |-> payload.platform, query |-> payload.query,
     datetime |-> payload.datetime, link |-> payload.link, author |-> payload.author,
     content |-> payload.content,
     sentiment |-> IF payload.sentiment = "" THEN "neutral" ELSE payload.sentiment,
     receivedAt |-> now, processed |-> FALSE]

\* `${item.title || ''} ${item.content || ''}`: a webhook document has no title
textToClassify(item) == Str(<<" ">> \o item.content)

\* item.title || '': a webhook document has no title
processedDocument(item, classification) ==
    [id |-> item.id, platform |-> item.platform, query |-> item.query,
     datetime |-> item.datetime, link |-> item.link, author |-> item.author,
     title |-> "", content |-> item.content, sentiment |-> item.sentiment,
     receivedAt |-> item.receivedAt] @@ classification

\* a push that does not look at the classification result
pushIfMatched_Always(item, c) ==
    [status |-> "pending",
     document |-> processedDocument(item, IF c.matched THEN c.classification
                                          ELSE [topic |-> "", subTopic |-> "",
                                                queryName |-> "", internalId |-> ""])]

\* classifyAndPushIfMatched for classification result c, up to its await
pushIfMatched(item, c) ==
    IF c.matched
    THEN [status |-> "pending", document |-> processedDocument(item, c.classification)]
    ELSE [status |-> "unmatched", document |-> NULL]

classifyAndPushIfMatched(item, initialized, queries) ==
    pushIfMatched(item, classifyText(initialized, queries, textToClassify(item)))

\* the guard of processKWatchQueue without the in-flight flag
mayDrain_IgnoreFlag(processing, queue) == ~(Len(queue) = 0)

\* the guard of processKWatchQueue: not (isProcessingQueue || kwatchQueue.length === 0)
mayDrain(processing, queue) == ~(processing \/ Len(queue) = 0)

\* a slice: the head is taken as the batch and also left in the queue
splice_KeepHead(queue, count) ==
    [batch |-> SubSeq(queue, 1, Min(count, Len(queue))), rest |-> queue]

\* a splice that takes the whole queue
splice_WholeQueue(queue, count) == [batch |-> queue, rest |-> <<>>]

\* kwatchQueue.splice(0, count): the removed head and what stays
splice(queue, count) ==
    [batch |-> SubSeq(queue, 1, Min(count, Len(queue))),
     rest |-> SubSeq(queue, Min(count, Len(queue)) + 1, Len(queue))]

\* a drain suspended at Promise.allSettled: every raw create is issued
Drain(batch) ==
    [batch |-> batch,
     raw |-> [i \in DOMAIN batch |-> "pending"],
     processed |-> [i \in DOMAIN batch |-> [status |-> "waiting", document |-> NULL]]]

rawSettled(d) == \A i \in DOMAIN d.batch : d.raw[i] # "pending"

\* a classification phase that passes over the records whose raw create was rejected
afterRaw_FulfilledOnly(d, initialized, queries) ==
    IF rawSettled(d)
    THEN [d EXCEPT !.processed = [i \in DOMAIN d.batch |->
                      IF d.raw[i] = "fulfilled"
                      THEN classifyAndPushIfMatched(d.batch[i], initialized, queries)
                      ELSE [status |-> "unmatched", document |-> NULL]]]
    ELSE d

\* a classification phase that does not wait for the raw creates
afterRaw_NoAwait(d, initialized, queries) ==
    [d EXCEPT !.processed = [i \in DOMAIN d.batch |->
                  IF d.processed[i].status = "waiting"
                  THEN classifyAndPushIfMatched(d.batch[i], initialized, queries)
                  ELSE d.processed[i]]]

\* batch.map(item => classifyAndPushIfMatched(item)) once Promise.allSettled resolved
afterRaw(d, initialized, queries) ==
    IF rawSettled(d)
    THEN [d EXCEPT !.processed = [i \in DOMAIN d.batch |->
                      classifyAndPushIfMatched(d.batch[i], initialized, queries)]]
    ELSE d

\* a drain that only ends when no processed create was rejected
finished_NoRejection(d) ==
    /\ rawSettled(d)
    /\ \A i \in DOMAIN d.batch : d.processed[i].status \in {"created", "unmatched"}

\* Promise.all resolved: processKWatchQueue reaches its finally block
finished(d) ==
    /\ rawSettled(d)
    /\ \A i \in DOMAIN d.batch : d.processed[i].status \notin {"waiting", "pending"}

\* what classifyAndPushIfMatched resolves to: true after the create was fulfilled,
\* false when nothing matched or the create was rejected
returned(p) == p.status = "created"

\* the 'Batch complete' line of a finished drain, together with the drain itself
batchComplete(d) ==
    [drain |-> d,
     successful |-> Cardinality({i \in DOMAIN d.batch : d.raw[i] = "fulfilled"}),
     failed |-> Cardinality({i \in DOMAIN d.batch : d.raw[i] = "rejected"}),
     matchedCount |-> Cardinality({i \in DOMAIN d.batch : returned(d.processed[i])})]

\* the ids of the documents for which classifyAndPushIfMatched has a create under way
pushed(d) ==
    LET creating == SelectSeq(d.processed, LAMBDA p : p.status = "pending")
    IN  [k \in DOMAIN creating |-> creating[k].document.id]

-----------------------------------------------------------------------------
(* Inputs of the rule engine *)

MaxWords == 4       \* longest free-form query, in lexemes
MaxOperators == 2   \* most binary operators in an operand-operator-operand query
MaxNodes == 3       \* largest directly built AST, in operator nodes

\* lexemes joined by single spaces
RECURSIVE Join(_)
Join(ws) ==
    IF ws = <<>> THEN <<>>
    ELSE IF Len(ws) = 1 THEN ws[1]
    ELSE ws[1] \o <<" ">> \o Join(Tail(ws))

SeqsUpTo(S, n) == UNION {[1..m -> S] : m \in 0..n}

TermNames == {<<"a">>, <<"b">>, <<"c">>}
KwOr == <<"O","R">>
KwAnd == <<"A","N","D">>
KwNear == <<"N","E","A","R">>

\* operand (operator operand)*: lexeme sequences with terms at the odd positions
Alternating(n) ==
    {ws \in [1..(2 * n + 1) -> TermNames \cup {KwOr, KwAnd, KwNear}] :
        \A i \in 1..(2 * n + 1) : (ws[i] \in TermNames) <=> (i % 2 = 1)}

KeysStructure == {<<"a">>, <<"o","r">>, <<"N","O","T">>, <<"(">>, <<")">>,
                  <<"n","e","a","r","/","1">>}
KeysLeaves == {<<"*">>, <<"a","-","b","*">>, <<"#","A","*">>, <<"\"","a"," ","b","\"">>,
               <<"'","a">>, <<"a","n","d">>, <<"N","E","A","R">>, <<"/","2">>}

Queries ==
    UNION {{Join(ws) : ws \in Alternating(n)} : n \in 0..MaxOperators}
    \cup {Join(ws) : ws \in SeqsUpTo(KeysStructure, MaxWords)}
    \cup {Join(ws) : ws \in SeqsUpTo(KeysLeaves, MaxWords - 1)}

Articles == {<<>>, <<"a">>, <<"b">>, <<"a"," ","b">>, <<"b"," ","c">>,
             <<"A"," ","x"," ","#","b">>}

NotParsed == [called |-> FALSE, threw |-> FALSE, ast |-> NULL]
NoResult == [called |-> FALSE, matched |-> FALSE, spans |-> <<>>]
NotTokenized == [called |-> "none", tokens |-> <<>>]

\* operands an AST under construction is combined with
Leaves == {TermNode(<<"a">>), TermNode(<<"b">>)}
Operands == Leaves \cup {NotNode(c) : c \in Leaves}

\* number of operator nodes of a tree
RECURSIVE Size(_)
Size(node) ==
    IF node = NULL THEN 0
    ELSE IF node.type = "NOT" THEN 1 + Size(node.child)
    ELSE IF node.type \in {"AND", "OR", "NEAR"} THEN 1 + Size(node.left) + Size(node.right)
    ELSE 0

BinaryNode(type, left, right) ==
    IF type = "AND" THEN AndNode(left, right)
    ELSE IF type = "OR" THEN OrNode(left, right)
    ELSE NearNode(0, left, right)

-----------------------------------------------------------------------------
(* The rule engine as a state machine: a query is parsed, the AST is       *)
(* evaluated on an article.                                                 *)

QueueIdle ==
    /\ kwatchQueue = <<>>
    /\ isProcessingQueue = FALSE
    /\ drains = {}
    /\ kwatchContainer = {}
    /\ kwatchProcessedContainer = {}
    /\ nextId = 1
    /\ lastTick = NULL
    /\ lastBatch = NULL
    /\ rawCreates = <<>>
    /\ processedCreates = <<>>
    /\ webhookStatus = 0

EngineIdle ==
    /\ query = <<>>
    /\ parsed = NotParsed
    /\ ruleAst = NULL
    /\ article = <<>>
    /\ result = NoResult
    /\ tokenized = NotTokenized

ServerIdle ==
    /\ csvFile = [readable |-> FALSE, rows |-> <<>>]
    /\ brandQueries = <<>>
    /\ isInitialized = FALSE
    /\ lastInit = NULL
    /\ observed = NULL
    /\ QueueIdle

InitParser ==
    /\ query \in Queries
    /\ parsed = NotParsed
    /\ ruleAst = NULL
    /\ article = <<>>
    /\ result = NoResult
    /\ tokenized = NotTokenized
    /\ ServerIdle

ParseRule ==
    /\ ~parsed.called
    /\ parsed' = [called |-> TRUE] @@ parseRule(query)
    /\ ruleAst' = parsed'.ast
    /\ UNCHANGED <<query, article, result, tokenized, classifierVars, queueVars>>

EvaluateRule(text) ==
    /\ ~result.called
    /\ article' = text
    /\ result' = [called |-> TRUE] @@ evaluateRule(ruleAst, text)
    /\ UNCHANGED <<query, parsed, ruleAst, tokenized, classifierVars, queueVars>>

EvaluateParsed == \E text \in Articles : parsed.called /\ ~parsed.threw /\ EvaluateRule(text)

NextParser == ParseRule \/ EvaluateParsed

SpecParser == InitParser /\ [][NextParser]_vars

InitEvaluator ==
    /\ query = <<>>
    /\ parsed = NotParsed
    /\ ruleAst \in Leaves
    /\ article = <<>>
    /\ result = NoResult
    /\ tokenized = NotTokenized
    /\ ServerIdle

\* the AST handed to evaluateRule grows by a NOT above it
BuildNot ==
    /\ ~result.called
    /\ Size(ruleAst) < MaxNodes
    /\ ruleAst' = NotNode(ruleAst)
    /\ UNCHANGED <<query, parsed, article, result, tokenized, classifierVars, queueVars>>

\* the AST handed to evaluateRule grows by a binary node above it and an operand
BuildBinary(type, other, onLeft) ==
    /\ ~result.called
    /\ Size(ruleAst) + Size(other) < MaxNodes
    /\ ruleAst' = IF onLeft THEN BinaryNode(type, other, ruleAst)
                  ELSE BinaryNode(type, ruleAst, other)
    /\ UNCHANGED <<query, parsed, article, result, tokenized, classifierVars, queueVars>>

EvaluateAst == \E text \in Articles : EvaluateRule(text)

NextEvaluator ==
    \/ BuildNot
    \/ \E type \in {"AND", "OR", "NEAR"}, other \in Operands, onLeft \in BOOLEAN :
          BuildBinary(type, other, onLeft)
    \/ EvaluateAst

SpecEvaluator == InitEvaluator /\ [][NextEvaluator]_vars

-----------------------------------------------------------------------------
(* Vocabulary of the claims about the rule engine *)

isBinary(node) == node.type \in {"AND", "OR", "NEAR"}

\* children of every NOT node of the tree, those inside another NOT's subtree included
RECURSIVE NotChildrenAll(_)
NotChildrenAll(node) ==
    IF node = NULL THEN {}
    ELSE IF node.type = "NOT" THEN {node.child} \cup NotChildrenAll(node.child)
    ELSE IF isBinary(node) THEN NotChildrenAll(node.left) \cup NotChildrenAll(node.right)
    ELSE {}

\* children of the NOT nodes reached from the root through AND, OR and NEAR nodes only
RECURSIVE NotChildrenOuter(_)
NotChildrenOuter(node) ==
    IF node = NULL THEN {}
    ELSE IF node.type = "NOT" THEN {node.child}
    ELSE IF isBinary(node) THEN NotChildrenOuter(node.left) \cup NotChildrenOuter(node.right)
    ELSE {}

\* the child has a positive match on the article
ChildMatches(c, text) == evaluatePositive(c, tokenizeArticle(text)).matched

\* some leaf of the tree lies under no NOT node
RECURSIVE HasLeafOutsideNot(_)
HasLeafOutsideNot(node) ==
    IF node = NULL THEN FALSE
    ELSE IF node.type = "NOT" THEN FALSE
    ELSE IF isBinary(node) THEN HasLeafOutsideNot(node.left) \/ HasLeafOutsideNot(node.right)
    ELSE TRUE

\* some NEAR node lies under no NOT node
RECURSIVE HasNearOutsideNot(_)
HasNearOutsideNot(node) ==
    IF node = NULL THEN FALSE
    ELSE IF node.type = "NOT" THEN FALSE
    ELSE IF node.type = "NEAR" THEN TRUE
    ELSE IF isBinary(node) THEN HasNearOutsideNot(node.left) \/ HasNearOutsideNot(node.right)
    ELSE FALSE

NegationOnly(node) == node # NULL /\ ~HasLeafOutsideNot(node)

\* every operator node of the tree has all its children
RECURSIVE ChildrenPresent(_)
ChildrenPresent(node) ==
    IF node = NULL THEN TRUE
    ELSE IF node.type = "NOT" THEN node.child # NULL /\ ChildrenPresent(node.child)
    ELSE IF isBinary(node)
         THEN /\ node.left # NULL /\ node.right # NULL
              /\ ChildrenPresent(node.left) /\ ChildrenPresent(node.right)
    ELSE TRUE

\* prefixes of the WILDCARD leaves of the tree
RECURSIVE WildcardPrefixes(_)
WildcardPrefixes(node) ==
    IF node = NULL THEN {}
    ELSE IF node.type = "WILDCARD" THEN {node.prefix}
    ELSE IF node.type = "NOT" THEN WildcardPrefixes(node.child)
    ELSE IF isBinary(node) THEN WildcardPrefixes(node.left) \cup WildcardPrefixes(node.right)
    ELSE {}

Accepted == parsed.called /\ ~parsed.threw

-----------------------------------------------------------------------------
\* C1 (as stated): whenever some NOT(c) anywhere in the AST, also one nested inside
\* another NOT's subtree, has a child c that matches the article, evaluateRule
\* returns matched = false with empty spans.
C1_AnyNotVetoes ==
    result.called =>
        ((\E c \in NotChildrenAll(ruleAst) : ChildMatches(c, article))
            => result.matched = FALSE /\ result.spans = <<>>)

\* C1 (amended): whenever some NOT(c) reached from the root through AND, OR and NEAR
\* nodes only (not nested inside another NOT's subtree) has a child c whose positive
\* evaluation matches the article, evaluateRule returns matched = false with empty
\* spans.
C1_OuterNotVetoes ==
    result.called =>
        ((\E c \in NotChildrenOuter(ruleAst) : ChildMatches(c, article))
            => result.matched = FALSE /\ result.spans = <<>>)

\* a NOT under an OR fires on an article the positive pass alone would accept
C1_Witness ==
    /\ result.called
    /\ ruleAst.type = "OR"
    /\ \E c \in NotChildrenOuter(ruleAst) : ChildMatches(c, article)
    /\ evaluatePositive(ruleAst, tokenizeArticle(article)).matched
    /\ ~result.matched

\* C4 (as stated): for a rule in which every leaf lies under a NOT node,
\* evaluateRule returns matched = true with empty spans iff no NOT node's child
\* matches the article, whatever operators (AND, OR, NEAR) combine the NOT subtrees.
C4_NegationOnlyAnyOperator ==
    (result.called /\ NegationOnly(ruleAst)) =>
        /\ result.spans = <<>>
        /\ result.matched <=> ~\E c \in NotChildrenAll(ruleAst) : ChildMatches(c, article)

\* C4 (amended): for a rule in which every leaf lies under a NOT node and whose NOT
\* subtrees are combined by AND and OR only (no NEAR outside a NOT), evaluateRule
\* returns matched = true with empty spans iff no NOT node reached from the root
\* through AND and OR nodes has a child whose positive evaluation matches the article.
C4_NegationOnlyAndOr ==
    (result.called /\ NegationOnly(ruleAst) /\ ~HasNearOutsideNot(ruleAst)) =>
        /\ result.spans = <<>>
        /\ result.matched <=> ~\E c \in NotChildrenOuter(ruleAst) : ChildMatches(c, article)

\* a conjunction of two negations is evaluated on an article that triggers neither
C4_Witness ==
    /\ result.called
    /\ ruleAst.type = "AND"
    /\ NegationOnly(ruleAst)
    /\ ruleAst.left.type = "NOT" /\ ruleAst.right.type = "NOT"
    /\ tokenizeArticle(article) # <<>>
    /\ result.matched /\ result.spans = <<>>

\* C3: every AND, OR and NEAR node of an AST that parseRule returns has a non-null
\* left and right child, and every NOT node a non-null child.
C3_ChildrenPresent == Accepted => ChildrenPresent(parsed.ast)

\* C9: every WILDCARD leaf of an AST that parseRule returns has a non-empty prefix
\* that is a single token (no space in it).
C9_WildcardPrefixIsToken ==
    Accepted => \A prefix \in WildcardPrefixes(parsed.ast) :
                    prefix # <<>> /\ " " \notin Range(prefix)

\* binding strength of the operator at the root of a tree: OR < AND < NEAR < NOT < primary
Rank(node) ==
    IF node = NULL THEN 5
    ELSE IF node.type = "OR" THEN 1
    ELSE IF node.type = "AND" THEN 2
    ELSE IF node.type = "NEAR" THEN 3
    ELSE IF node.type = "NOT" THEN 4
    ELSE 5

\* no operand binds looser than its operator, and no right operand as loose as it
RECURSIVE Layered(_)
Layered(node) ==
    IF node = NULL THEN TRUE
    ELSE IF node.type = "NOT" THEN Rank(node.child) >= 4 /\ Layered(node.child)
    ELSE IF isBinary(node)
         THEN /\ Rank(node.left) >= Rank(node) /\ Rank(node.right) > Rank(node)
              /\ Layered(node.left) /\ Layered(node.right)
    ELSE TRUE

\* the ASTs the claim gives for its three query shapes
PrecedenceCases ==
    UNION {{ <<Join(<<x, KwOr, y, KwAnd, z>>),
               OrNode(TermNode(x), AndNode(TermNode(y), TermNode(z)))>>,
             <<Join(<<x, KwAnd, y, KwNear, z>>),
               AndNode(TermNode(x),
                       NearNode(DEFAULT_NEAR_DISTANCE, TermNode(y), TermNode(z)))>>,
             <<Join(<<x, KwOr, y, KwOr, z>>),
               OrNode(OrNode(TermNode(x), TermNode(y)), TermNode(z))>> } :
           x \in TermNames, y \in TermNames, z \in TermNames}

QueryAOrBAndC == Join(<<(<<"a">>), KwOr, <<"b">>, KwAnd, <<"c">>>>)

\* C10: parseRule binds OR < AND < NEAR < NOT < primary and builds left-associative
\* binary nodes: in the AST of a query without parentheses no operand binds looser
\* than its operator and no right operand as loose as it; 'x OR y AND z' is
\* OR(x, AND(y, z)), 'x AND y NEAR z' is AND(x, NEAR(y, z)), 'x OR y OR z' is
\* OR(OR(x, y), z); and 'a OR b AND c' matches article 'a' and article 'b c' but not
\* article 'b'.
C10_Precedence ==
    /\ (Accepted /\ "(" \notin Range(query)) => Layered(parsed.ast)
    /\ \A case \in PrecedenceCases :
         (parsed.called /\ query = case[1]) => (~parsed.threw /\ parsed.ast = case[2])
    /\ (result.called /\ query = QueryAOrBAndC) =>
         /\ article = <<"a">> => result.matched
         /\ article = <<"b"," ","c">> => result.matched
         /\ article = <<"b">> => ~result.matched

\* 'a OR b AND c' was parsed and matched on article 'b c'
C10_Witness ==
    /\ query = QueryAOrBAndC
    /\ Accepted
    /\ parsed.ast.type = "OR" /\ parsed.ast.right.type = "AND"
    /\ result.called /\ article = <<"b"," ","c">> /\ result.matched

-----------------------------------------------------------------------------
(* The classifier as a state machine: startup, reload, classify and status  *)
(* calls, and a catalog file that may become unreadable.                    *)

MaxRows == 3        \* most rows of the catalog file

Row(id, queryText) ==
    [topic |-> "Brand", subTopic |-> "Sub", queryName |-> id, internalId |-> id,
     queryText |-> queryText]

SampleRows == {Row("q-a", <<"a">>),
               Row("q-not-b", <<"N","O","T"," ","b">>),
               Row("q-unterminated", <<"\"","a"," ","b">>),
               Row("q-unclosed", <<"(","a">>),
               Row("q-empty", <<>>)}

Texts == {Str(<<>>), Str(<<" ">>), Str(<<"a">>), Str(<<"x">>), Str(<<"x"," ","b">>),
          NonString("number")}

moduleState == [brandQueries |-> brandQueries, isInitialized |-> isInitialized]

InitClassifier ==
    /\ csvFile \in [readable : BOOLEAN, rows : SeqsUpTo(SampleRows, MaxRows)]
    /\ brandQueries = <<>>
    /\ isInitialized = FALSE
    /\ lastInit = NULL
    /\ observed = NULL
    /\ EngineIdle
    /\ QueueIdle

\* the module variables and the caller's view after an initialization call
Installed(call, out) ==
    /\ brandQueries' = out.brandQueries
    /\ isInitialized' = out.isInitialized
    /\ lastInit' = [call |-> call, wasInitialized |-> isInitialized,
                    readable |-> csvFile.readable] @@ out.ret
    /\ observed' = NULL
    /\ UNCHANGED <<csvFile, engineVars, queueVars>>

\* server startup (or any later call) of initializeBrandClassifier
InitializeBrandClassifier ==
    Installed("initialize", initializeBrandClassifier(moduleState, csvFile))

\* POST /api/health/reload-classifier
ReloadQueries ==
    Installed("reload", reloadQueries(moduleState, csvFile))

ClassifyText(text) ==
    /\ observed' = [call |-> "classifyText", text |-> text]
                   @@ classifyText(isInitialized, brandQueries, text)
    /\ UNCHANGED <<csvFile, brandQueries, isInitialized, lastInit, engineVars, queueVars>>

GetClassifierStatus ==
    /\ observed' = [call |-> "status"] @@ getClassifierStatus(isInitialized, brandQueries)
    /\ UNCHANGED <<csvFile, brandQueries, isInitialized, lastInit, engineVars, queueVars>>

\* the catalog file is removed or made unreadable, or put back
SetFileReadable(readable) ==
    /\ csvFile.readable # readable
    /\ csvFile' = [csvFile EXCEPT !.readable = readable]
    /\ UNCHANGED <<brandQueries, isInitialized, lastInit, observed, engineVars, queueVars>>

NextClassifier ==
    \/ InitializeBrandClassifier
    \/ ReloadQueries
    \/ \E text \in Texts : ClassifyText(text)
    \/ GetClassifierStatus
    \/ \E readable \in BOOLEAN : SetFileReadable(readable)

SpecClassifier == InitClassifier /\ [][NextClassifier]_vars

-----------------------------------------------------------------------------
(* The ingestion queue as a state machine: webhook posts, timer ticks and   *)
(* the settling of store writes, with the classifier as server startup left *)
(* it.                                                                      *)

MaxArrivals == 3    \* most documents the webhook accepts

\* a complete webhook body with this content
Body(content) ==
    [platform |-> "reddit", query |-> "brand", datetime |-> "t", link |-> "l",
     author |-> "u", content |-> content, sentiment |-> "positive"]

Payloads == {Body(<<>>), Body(<<"a">>), Body(<<"x">>)}

StartupFiles == {[readable |-> TRUE, rows |-> <<Row("q-a", <<"a">>)>>],
                 [readable |-> FALSE, rows |-> <<>>]}

Started(file, out) ==
    /\ csvFile = file
    /\ brandQueries = out.brandQueries
    /\ isInitialized = out.isInitialized
    /\ lastInit = [call |-> "initialize", wasInitialized |-> FALSE,
                   readable |-> file.readable] @@ out.ret
    /\ observed = NULL

InitQueue ==
    /\ \E file \in StartupFiles :
           Started(file, initializeBrandClassifier(
                             [brandQueries |-> <<>>, isInitialized |-> FALSE], file))
    /\ EngineIdle
    /\ QueueIdle

\* POST /api/webhook/kwatch with this body
Post(payload) ==
    /\ IF missingFields(payload)
       THEN /\ webhookStatus' = 400
            /\ UNCHANGED <<kwatchQueue, nextId>>
       ELSE /\ kwatchQueue' = Append(kwatchQueue, kwatchDocument(nextId, payload, nextId))
            /\ nextId' = nextId + 1
            /\ webhookStatus' = 200
    /\ UNCHANGED <<isProcessingQueue, drains, kwatchContainer, kwatchProcessedContainer,
                   lastTick, lastBatch, rawCreates, processedCreates, engineVars,
                   classifierVars>>

\* a webhook post while fewer than MaxArrivals documents have been accepted
Webhook(payload) == nextId <= MaxArrivals /\ Post(payload)

\* the drain a tick starts on the spliced batch: every raw create is called
Spliced(s) ==
    /\ kwatchQueue' = s.rest
    /\ drains' = drains \cup {Drain(s.batch)}
    /\ rawCreates' = rawCreates \o [i \in DOMAIN s.batch |-> s.batch[i].id]

\* a timer tick: processKWatchQueue up to its first await
ProcessKWatchQueue ==
    /\ lastTick' = [busy |-> isProcessingQueue, pending |-> Len(kwatchQueue),
                    started |-> mayDrain(isProcessingQueue, kwatchQueue)]
    /\ IF mayDrain(isProcessingQueue, kwatchQueue)
       THEN /\ isProcessingQueue' = TRUE
            /\ Spliced(splice(kwatchQueue, BATCH_SIZE))
       ELSE UNCHANGED <<isProcessingQueue, kwatchQueue, drains, rawCreates>>
    /\ UNCHANGED <<kwatchContainer, kwatchProcessedContainer, nextId, webhookStatus,
                   lastBatch, processedCreates, engineVars, classifierVars>>

\* drain d goes on as d2: it stays suspended, or ends in its finally block
Resume(d, d2) ==
    /\ processedCreates' = processedCreates
                              \o (IF rawSettled(d) THEN <<>> ELSE pushed(d2))
    /\ IF finished(d2)
       THEN /\ drains' = drains \ {d}
            /\ isProcessingQueue' = FALSE
            /\ lastBatch' = batchComplete(d2)
       ELSE /\ drains' = (drains \ {d}) \cup {d2}
            /\ UNCHANGED <<isProcessingQueue, lastBatch>>

\* kwatchContainer.items.create(batch[i]) settles; the last one to settle lets the
\* drain go on to the classification phase
RawSettle(d, i, outcome) ==
    /\ d.raw[i] = "pending"
    /\ kwatchContainer' = IF outcome = "fulfilled"
                          THEN kwatchContainer \cup {d.batch[i]}
                          ELSE kwatchContainer
    /\ Resume(d, afterRaw([d EXCEPT !.raw[i] = outcome], isInitialized, brandQueries))
    /\ UNCHANGED <<kwatchQueue, kwatchProcessedContainer, nextId, lastTick, rawCreates,
                   webhookStatus, engineVars, classifierVars>>

\* kwatchProcessedContainer.items.create(processedDocument) settles: created,
\* rejected with code 409, or rejected with another error
ProcessedSettle(d, i, outcome) ==
    /\ d.processed[i].status = "pending"
    /\ kwatchProcessedContainer' = IF outcome = "created"
                                   THEN kwatchProcessedContainer
                                            \cup {d.processed[i].document}
                                   ELSE kwatchProcessedContainer
    /\ Resume(d, [d EXCEPT !.processed[i].status = outcome])
    /\ UNCHANGED <<kwatchQueue, kwatchContainer, nextId, lastTick, rawCreates,
                   webhookStatus, engineVars, classifierVars>>

NextQueue ==
    \/ \E payload \in Payloads : Webhook(payload)
    \/ ProcessKWatchQueue
    \/ \E d \in drains : \E i \in DOMAIN d.batch :
           \E outcome \in {"fulfilled", "rejected"} : RawSettle(d, i, outcome)
    \/ \E d \in drains : \E i \in DOMAIN d.batch :
           \E outcome \in {"created", "conflict", "failed"} : ProcessedSettle(d, i, outcome)

SpecQueue == InitQueue /\ [][NextQueue]_vars

-----------------------------------------------------------------------------
(* Claims about the classifier *)

ClassifyObserved == observed # NULL /\ observed.call = "classifyText"

\* catalog indices whose rule matches the text
Hits(text) == {i \in DOMAIN brandQueries : evaluateRule(brandQueries[i].ast, text.chars).matched}

FirstOf(hits) == CHOOSE i \in hits : \A j \in hits : i <= j

FirstMatchOutcome(hits) ==
    IF hits = {} THEN ~observed.matched /\ observed.classification = NULL
    ELSE /\ observed.matched
         /\ observed.classification = classificationOf(brandQueries[FirstOf(hits)])

\* C2: with an initialized catalog and non-blank text, classifyText returns the
\* classification of the matching rule with the smallest catalog index, and
\* matched=false with classification=null iff no rule of the catalog matches
C2_FirstMatch ==
    (ClassifyObserved /\ isInitialized /\ ~isBlank(observed.text))
        => FirstMatchOutcome(Hits(observed.text))

\* the first two rules of the catalog are different rules, both match the text, and
\* the first one was returned
C2_Witness ==
    /\ ClassifyObserved /\ isInitialized /\ ~isBlank(observed.text)
    /\ Len(brandQueries) >= 2
    /\ brandQueries[1].internalId # brandQueries[2].internalId
    /\ {1, 2} \subseteq Hits(observed.text)
    /\ observed.matched
    /\ observed.classification.internalId = brandQueries[1].internalId

\* C7: classifyText returns {matched:false, classification:null} and evaluates no
\* rule when the classifier is not initialized or the text is empty,
\* whitespace-only or not a string
C7_NotReadyOrBlank ==
    (ClassifyObserved /\ (~isInitialized \/ isBlank(observed.text)))
        => /\ ~observed.matched
           /\ observed.classification = NULL
           /\ observed.evaluated = 0

\* whitespace-only text was classified against a catalog holding 'NOT b', a rule
\* that matches any text without b
C7_Witness ==
    /\ ClassifyObserved /\ isInitialized
    /\ observed.text = Str(<<" ">>)
    /\ \E i \in DOMAIN brandQueries : brandQueries[i].internalId = "q-not-b"
    /\ ~observed.matched

\* C5: a reload invoked while the classifier is Ready leaves it Ready, with the old
\* catalog or the new one, also when the catalog file cannot be read
C5_ReloadKeepsReady ==
    (lastInit # NULL /\ lastInit.call = "reload" /\ lastInit.wasInitialized)
        => /\ isInitialized
           /\ (observed # NULL /\ observed.call = "status") => observed.initialized

\* parseRule accepts the row's query and yields an AST
Compiles(row) == ~compileRow(row).threw /\ compileRow(row).entry.ast # NULL

IdsOf(rows) == [i \in DOMAIN rows |-> rows[i].internalId]

\* some row before rows[j] is rejected by parseRule
AfterBrokenRow(rows, j) == \E i \in 1..(j - 1) : compileRow(rows[i]).threw

\* the last initialize or reload call read the catalog file
CatalogLoaded ==
    /\ lastInit # NULL
    /\ lastInit.readable
    /\ lastInit.call = "reload" \/ ~lastInit.wasInitialized

\* C8: a row whose query fails to lex or parse is left out of the catalog and does
\* not fail initialization: the classifier is Ready, the compiled rules are the
\* rows that compile, in CSV order, and a valid rule after a broken row classifies
C8_BadRowIsolated ==
    CatalogLoaded
        => /\ lastInit.success
           /\ isInitialized
           /\ \A i \in DOMAIN brandQueries : ~parseRule(brandQueries[i].queryText).threw
           /\ IdsOf(brandQueries) = IdsOf(SelectSeq(csvFile.rows, Compiles))
           /\ (ClassifyObserved /\ ~isBlank(observed.text))
                => \A j \in DOMAIN csvFile.rows :
                       (/\ AfterBrokenRow(csvFile.rows, j)
                        /\ Compiles(csvFile.rows[j])
                        /\ evaluateRule(compileRow(csvFile.rows[j]).entry.ast,
                                        observed.text.chars).matched)
                           => observed.matched

\* catalog file 'a', unterminated phrase, 'NOT b': the broken row is absent, the
\* other two keep their order, and text 'x' is classified by the rule after it
C8_Witness ==
    /\ CatalogLoaded
    /\ IdsOf(csvFile.rows) = <<"q-a", "q-unterminated", "q-not-b">>
    /\ IdsOf(brandQueries) = <<"q-a", "q-not-b">>
    /\ lastInit.parseFailCount = 1
    /\ ClassifyObserved
    /\ observed.text = Str(<<"x">>)
    /\ observed.matched
    /\ observed.classification.internalId = "q-not-b"

-----------------------------------------------------------------------------
(* Claims about the ingestion queue *)

\* a timer tick was taken in this step
TickStep == lastTick' # lastTick

\* C6: at most one drain of the ingestion queue is in flight at any time, and a
\* tick that fires while a drain awaits store writes removes no record from the
\* queue and issues no store write
C6_SingleDrain ==
    /\ [](Cardinality(drains) <= 1)
    /\ [][(TickStep /\ drains # {})
             => /\ kwatchQueue' = kwatchQueue
                /\ drains' = drains
                /\ kwatchContainer' = kwatchContainer
                /\ kwatchProcessedContainer' = kwatchProcessedContainer]_vars

\* a tick found a drain in flight and records waiting, and left both as they were
C6_Witness ==
    /\ lastTick # NULL
    /\ lastTick.busy /\ ~lastTick.started
    /\ lastTick.pending > 0
    /\ Len(kwatchQueue) = lastTick.pending
    /\ Cardinality(drains) = 1

-----------------------------------------------------------------------------
(* The tokenizer as a state machine: a text is typed character by character *)
(* and handed to tokenizeArticle or tokenizePhrase.                         *)

MaxChars == 4       \* longest text, in characters

TextChars == {"a", "B", "1", "@", "#", " ", "-", "é"}

InitTokenizer ==
    /\ query = <<>>
    /\ parsed = NotParsed
    /\ ruleAst = NULL
    /\ article = <<>>
    /\ result = NoResult
    /\ tokenized = NotTokenized
    /\ ServerIdle

TypeChar(c) ==
    /\ Len(article) < MaxChars
    /\ article' = Append(article, c)
    /\ tokenized' = NotTokenized
    /\ UNCHANGED <<query, parsed, ruleAst, result, classifierVars, queueVars>>

TokenizeArticle ==
    /\ tokenized' = [called |-> "tokenizeArticle", tokens |-> tokenizeArticle(article)]
    /\ UNCHANGED <<query, parsed, ruleAst, article, result, classifierVars, queueVars>>

TokenizePhrase ==
    /\ tokenized' = [called |-> "tokenizePhrase", tokens |-> tokenizePhrase(article)]
    /\ UNCHANGED <<query, parsed, ruleAst, article, result, classifierVars, queueVars>>

NextTokenizer ==
    \/ \E c \in TextChars : TypeChar(c)
    \/ TokenizeArticle
    \/ TokenizePhrase

SpecTokenizer == InitTokenizer /\ [][NextTokenizer]_vars

-----------------------------------------------------------------------------
(* Claims about the tokenizer *)

isAlphanumeric(c) == isLower(c) \/ isDigit(c)

\* [@#]?[a-z0-9]+
WellFormedToken(t) ==
    /\ t # <<>>
    /\ IF t[1] \in {"@", "#"}
       THEN Len(t) > 1 /\ \A i \in 2..Len(t) : isAlphanumeric(t[i])
       ELSE \A i \in 1..Len(t) : isAlphanumeric(t[i])

\* C11: every token returned by tokenizeArticle and tokenizePhrase is a non-empty
\* string of lowercase alphanumerics optionally preceded by exactly one '@' or '#'
C11_TokensWellFormed ==
    \A i \in DOMAIN tokenized.tokens : WellFormedToken(tokenized.tokens[i])

-----------------------------------------------------------------------------
(* Claims about OR over NOT *)

\* the article has the word as a token, bare or as a mention or hashtag
Contains(text, word) ==
    \E i \in DOMAIN tokenizeArticle(text) :
        tokenizeArticle(text)[i] \in {word, <<"@">> \o word, <<"#">> \o word}

\* the query 'x OR NOT y'
OrNotQuery(x, y) == Join(<<x, KwOr, <<"N","O","T">>, y>>)

\* the tree under evaluation is OR(x, NOT(y)), which is what parseRule makes of
\* the query 'x OR NOT y'
IsOrNot(x, y) ==
    /\ ruleAst = OrNode(TermNode(x), NotNode(TermNode(y)))
    /\ ~parseRule(OrNotQuery(x, y)).threw
    /\ ruleAst = parseRule(OrNotQuery(x, y)).ast

\* C12: a NOT under an OR vetoes the whole rule: 'a OR NOT b' does not match an
\* article containing both a and b, and matches one containing a and not b
C12_NotUnderOrVetoes ==
    result.called =>
        \A x, y \in TermNames :
            (x # y /\ IsOrNot(x, y) /\ Contains(article, x))
                => (result.matched <=> ~Contains(article, y))

\* 'a OR NOT b' was evaluated on an article holding a and b and did not match
C12_Witness ==
    /\ result.called
    /\ IsOrNot(<<"a">>, <<"b">>)
    /\ Contains(article, <<"a">>) /\ Contains(article, <<"b">>)
    /\ ~result.matched

-----------------------------------------------------------------------------
(* Claims about parse errors *)

\* from position i on, some quote character opens a phrase that is never closed
RECURSIVE UnterminatedFrom(_, _)
UnterminatedFrom(q, i) ==
    IF i > Len(q) THEN FALSE
    ELSE IF q[i] \in {"\"", "'"}
         THEN LET closing == {j \in (i + 1)..Len(q) : q[j] = q[i]}
              IN  IF closing = {} THEN TRUE
                  ELSE UnterminatedFrom(q, (CHOOSE j \in closing : \A k \in closing : j <= k) + 1)
         ELSE UnterminatedFrom(q, i + 1)

isOperatorToken(tok) == tok.type \in {"AND", "OR", "NEAR", "NEAR_WORD", "NOT"}

\* the '/N' of the two-token form 'NEAR /N'
isNearDistance(toks, i) ==
    /\ i > 1 /\ toks[i - 1].type = "NEAR_WORD"
    /\ toks[i].type = "TERM" /\ isSlashNumber(toks[i].value)

\* nothing that could be an operand follows position i
EndsAt(toks, i) == i = Len(toks) \/ toks[i + 1].type = "RPAREN"

\* an AND, OR, NEAR or NOT is the last token or stands right before ')'
OperatorWithoutRightOperand(toks) ==
    \E i \in DOMAIN toks :
        /\ isOperatorToken(toks[i])
        /\ \/ EndsAt(toks, i)
           \/ i < Len(toks) /\ isNearDistance(toks, i + 1) /\ EndsAt(toks, i + 1)

ParenCount(toks, n, type) == Cardinality({i \in 1..n : toks[i].type = type})

\* some ')' closes nothing, or some '(' is never closed
UnbalancedParens(toks) ==
    \/ ParenCount(toks, Len(toks), "LPAREN") # ParenCount(toks, Len(toks), "RPAREN")
    \/ \E n \in DOMAIN toks : ParenCount(toks, n, "RPAREN") > ParenCount(toks, n, "LPAREN")

\* two operands follow each other with no operator between them
AdjacentOperands(toks) ==
    \E i \in 1..(Len(toks) - 1) :
        /\ toks[i].type \in {"TERM", "PHRASE", "RPAREN"}
        /\ ~isNearDistance(toks, i)
        /\ toks[i + 1].type \in {"TERM", "PHRASE", "LPAREN"}

Malformed(q) ==
    \/ UnterminatedFrom(q, 1)
    \/ /\ ~tokenizeQuery(q).threw
       /\ \/ OperatorWithoutRightOperand(tokenizeQuery(q).tokens)
          \/ UnbalancedParens(tokenizeQuery(q).tokens)
          \/ AdjacentOperands(tokenizeQuery(q).tokens)

-----------------------------------------------------------------------------
(* Claims about the implicit AND before NOT *)

KwNot == <<"N","O","T">>

isKeyword(word, kw) == MapSeq(word, toUpperCase) = kw

\* the word can end an operand: a term or a closing parenthesis
EndsOperand(word) ==
    /\ ~isKeyword(word, KwAnd) /\ ~isKeyword(word, KwOr) /\ ~isKeyword(word, KwNot)
    /\ ~isKeyword(word, KwNear) /\ ~isNearSlash(word)
    /\ word # <<"(">>

\* the words of the query, with AND put before every NOT that follows an operand
RECURSIVE WithExplicitAnd(_, _)
WithExplicitAnd(words, i) ==
    IF i > Len(words) THEN <<>>
    ELSE IF i > 1 /\ isKeyword(words[i], KwNot) /\ EndsOperand(words[i - 1])
         THEN <<KwAnd, words[i]>> \o WithExplicitAnd(words, i + 1)
         ELSE <<words[i]>> \o WithExplicitAnd(words, i + 1)

HasInfixNot(words) ==
    \E i \in 2..Len(words) : isKeyword(words[i], KwNot) /\ EndsOperand(words[i - 1])

\* the query is made of the structure keys: terms, or, NOT, parentheses, near/1
StructureWords(q) ==
    /\ q # <<>>
    /\ \A i \in DOMAIN split(q, <<>>) : split(q, <<>>)[i] \in KeysStructure

\* C15: a NOT in infix position without a preceding AND is parsed as AND NOT:
\* 'A NOT B' yields the AST of 'A AND NOT B', which is AND(A, NOT(B))
C15_ImplicitAndBeforeNot ==
    (parsed.called /\ StructureWords(query) /\ HasInfixNot(split(query, <<>>)))
        => /\ [threw |-> parsed.threw, ast |-> parsed.ast]
                = parseRule(Join(WithExplicitAnd(split(query, <<>>), 1)))
           /\ query = Join(<<<<"a">>, KwNot, <<"a">>>>)
                => parsed.ast = AndNode(TermNode(<<"a">>), NotNode(TermNode(<<"a">>)))

\* 'a NOT a' was parsed to AND(a, NOT(a))
C15_Witness ==
    /\ parsed.called
    /\ query = Join(<<<<"a">>, KwNot, <<"a">>>>)
    /\ ~parsed.threw
    /\ parsed.ast = AndNode(TermNode(<<"a">>), NotNode(TermNode(<<"a">>)))

-----------------------------------------------------------------------------
(* Claims about spans *)

\* the spans of the positive evaluation of the rule, before they are merged
UnmergedSpans == evaluatePositive(ruleAst, tokenizeArticle(article)).spans

WellFormedSpan(sp, n) == 0 <= sp[1] /\ sp[1] < sp[2] /\ sp[2] <= n

AllWellFormed(spans, n) == \A i \in DOMAIN spans : WellFormedSpan(spans[i], n)

\* C16: every span [s, e) returned by evaluateRule, and every span of a leaf or of
\* a NEAR combination it is merged from, has 0 <= s < e <= |T|
C16_SpansWellFormed ==
    result.called
        => /\ AllWellFormed(result.spans, Len(tokenizeArticle(article)))
           /\ AllWellFormed(UnmergedSpans, Len(tokenizeArticle(article)))

\* a phrase of two tokens matched at the end of the article: its span ends at |T|
C16_Witness ==
    /\ result.called /\ result.matched
    /\ ruleAst # NULL /\ ruleAst.type = "PHRASE"
    /\ result.spans = <<(<<0, 2>>)>>
    /\ Len(tokenizeArticle(article)) = 2

\* token positions covered by the spans
Positions(spans) == UNION {spans[i][1]..(spans[i][2] - 1) : i \in DOMAIN spans}

\* C17: the spans of a matched rule are sorted by start and pairwise disjoint with a
\* strict gap (merged[i].end < merged[i+1].start), and cover exactly the positions
\* the unmerged spans cover
C17_MergedSpans ==
    (result.called /\ result.matched)
        => /\ \A i \in 1..(Len(result.spans) - 1) :
                  result.spans[i][2] < result.spans[i + 1][1]
           /\ Positions(result.spans) = Positions(UnmergedSpans)

\* touching and overlapping spans of the positive pass were folded into one
C17_Witness ==
    /\ result.called /\ result.matched
    /\ Len(UnmergedSpans) >= 3
    /\ \E i, j \in DOMAIN UnmergedSpans : UnmergedSpans[i][2] = UnmergedSpans[j][1]
    /\ \E i, j \in DOMAIN UnmergedSpans :
           /\ UnmergedSpans[i][1] < UnmergedSpans[j][1]
           /\ UnmergedSpans[j][1] < UnmergedSpans[i][2]
    /\ Len(result.spans) = 1

-----------------------------------------------------------------------------
(* Claims about NEAR *)

SampleDistances == {0, 1, DEFAULT_NEAR_DISTANCE}

\* C18: NEAR is symmetric in its operands: NEAR(d, A, B) and NEAR(d, B, A) give the
\* same matched value on every article
C18_NearSymmetric ==
    (result.called /\ ruleAst.type = "NEAR")
        => \A d \in SampleDistances :
               evaluateRule(NearNode(d, ruleAst.left, ruleAst.right), article).matched
                   = evaluateRule(NearNode(d, ruleAst.right, ruleAst.left), article).matched

\* NEAR over two different terms matched an article, so the swapped rule has to
\* find the right span before the left one
C18_Witness ==
    /\ result.called /\ result.matched
    /\ ruleAst.type = "NEAR"
    /\ ruleAst.left.type = "TERM" /\ ruleAst.right.type = "TERM"
    /\ ruleAst.left # ruleAst.right

-----------------------------------------------------------------------------
(* Term and NEAR matching as a state machine: a one-operator or one-term    *)
(* query is parsed and evaluated on articles that place the words at known  *)
(* positions.                                                               *)

MaxGap == 10        \* most filler tokens between the two words of an article

Alpha == <<"a","l","p","h","a">>
Beta == <<"b","e","t","a">>
Stryker == <<"s","t","r","y","k","e","r">>

\* decimal digits of a number below 100
Decimal(n) == IF n < 10 THEN <<Digits[n + 1]>> ELSE <<Digits[(n \div 10) + 1], Digits[(n % 10) + 1]>>

NearNumbers == {0, 3, 8, 9, 10}

\* the ways to write the operator: bare NEAR, 'NEAR/N' and 'NEAR /N'
NearForms ==
    [kw : {KwNear, <<"n","e","a","r">>}, bare : {TRUE}, distance : {0}, spaced : {FALSE}]
    \cup [kw : {KwNear, <<"n","e","a","r">>}, bare : {FALSE}, distance : NearNumbers,
          spaced : BOOLEAN]

NearWords(form) ==
    IF form.bare THEN <<form.kw>>
    ELSE IF form.spaced THEN <<form.kw, <<"/">> \o Decimal(form.distance)>>
    ELSE <<form.kw \o <<"/">> \o Decimal(form.distance)>>

NearQuery(l, form, r) == Join(<<l>> \o NearWords(form) \o <<r>>)

NearQueries ==
    {NearQuery(w[1], form, w[2]) : w \in {<<Alpha, Beta>>, <<Beta, Alpha>>}, form \in NearForms}

TermQueries == {Stryker, <<"#">> \o Stryker, <<"@">> \o Stryker, MapSeq(Stryker, toUpperCase)}

\* first, then k times 'x', then last
Spread(first, k, last) == Join(<<first>> \o [i \in 1..k |-> <<"x">>] \o <<last>>)

NearArticles ==
    {Spread(w[1], k, w[2]) : w \in {<<Alpha, Beta>>, <<Beta, Alpha>>}, k \in 0..MaxGap}

TermArticles ==
    {Join(<<Stryker, <<"t","r","a","u","m","a">>, <<"t","e","a","m">>>>),
     Join(<<<<"x">>, <<"#">> \o Stryker>>),
     Join(<<<<"@">> \o Stryker, Stryker, <<"#">> \o Stryker>>),
     Join(<<Stryker \o <<"s">>, <<"#">> \o Stryker \o <<"s">>>>)}

InitMatching ==
    /\ query \in NearQueries \cup TermQueries
    /\ parsed = NotParsed
    /\ ruleAst = NULL
    /\ article = <<>>
    /\ result = NoResult
    /\ tokenized = NotTokenized
    /\ ServerIdle

EvaluateMatching ==
    \E text \in NearArticles \cup TermArticles :
        parsed.called /\ ~parsed.threw /\ EvaluateRule(text)

NextMatching == ParseRule \/ EvaluateMatching

SpecMatching == InitMatching /\ [][NextMatching]_vars

-----------------------------------------------------------------------------
(* Claims about NEAR distances and TERM matching *)

\* 1-based positions of the article's tokens that are the word
PositionsOf(word, text) ==
    {i \in DOMAIN tokenizeArticle(text) : tokenizeArticle(text)[i] = word}

\* tokens strictly between two positions
Gap(i, j) == IF i = j THEN 0 ELSE (IF i < j THEN j - i ELSE i - j) - 1

WithinGap(l, r, text, d) ==
    \E i \in PositionsOf(l, text), j \in PositionsOf(r, text) : Gap(i, j) <= d

\* C19: bare NEAR is parsed with distance 9, 'NEAR/N' and 'NEAR /N' with distance N,
\* and NEAR(d) matches iff some left span and some right span are at most d tokens
\* apart: 'alpha NEAR beta' matches alpha at 0 and beta at 9, 'alpha NEAR/3 beta'
\* does not
C19_NearDistance ==
    \A w \in {<<Alpha, Beta>>, <<Beta, Alpha>>}, form \in NearForms :
        (parsed.called /\ query = NearQuery(w[1], form, w[2]))
            => /\ ~parsed.threw
               /\ parsed.ast = NearNode(IF form.bare THEN 9 ELSE form.distance,
                                        TermNode(w[1]), TermNode(w[2]))
               /\ result.called
                    => (result.matched
                          <=> WithinGap(w[1], w[2], article,
                                        IF form.bare THEN 9 ELSE form.distance))

\* 'alpha NEAR beta' matched the article with alpha at 0 and beta at 9
C19_Witness ==
    /\ query = NearQuery(Alpha, [kw |-> KwNear, bare |-> TRUE, distance |-> 0,
                                 spaced |-> FALSE], Beta)
    /\ article = Spread(Alpha, 8, Beta)
    /\ result.called /\ result.matched

\* the 1-based token positions of text that a TERM with this value should match
TermHits(value, text) ==
    {i \in DOMAIN tokenizeArticle(text) :
        tokenizeArticle(text)[i]
            \in (IF value[1] \in {"@", "#"} THEN {value}
                 ELSE {value, <<"@">> \o value, <<"#">> \o value})}

\* C20: a TERM starting with '@' or '#' matches only the tokens equal to it, a TERM
\* v without prefix matches exactly the tokens v, '@v' and '#v', and each match
\* yields the span [i, i+1)
C20_TermMatching ==
    (result.called /\ ruleAst # NULL /\ ruleAst.type = "TERM")
        => /\ {UnmergedSpans[k] : k \in DOMAIN UnmergedSpans}
                = {<<i - 1, i>> : i \in TermHits(ruleAst.value, article)}
           /\ Len(UnmergedSpans) = Cardinality(TermHits(ruleAst.value, article))
           /\ result.matched <=> TermHits(ruleAst.value, article) # {}

\* rule '#stryker' was evaluated on 'stryker trauma team' and did not match
C20_Witness ==
    /\ query = <<"#">> \o Stryker
    /\ article = Join(<<Stryker, <<"t","r","a","u","m","a">>, <<"t","e","a","m">>>>)
    /\ result.called /\ ~result.matched

-----------------------------------------------------------------------------
(* Claims about the tokenizer: idempotence *)

\* C21: tokenizeArticle applied to the space-joined tokens of tokenizeArticle(text)
\* returns the same tokens
C21_TokenizeIdempotent ==
    tokenized.called = "tokenizeArticle"
        => tokenizeArticle(Join(tokenized.tokens)) = tokenized.tokens

\* tokenizeArticle returned two tokens for a text that is not their space-joined form
C21_Witness ==
    /\ tokenized.called = "tokenizeArticle"
    /\ Len(tokenized.tokens) = 2
    /\ Join(tokenized.tokens) # article
    /\ \E i \in DOMAIN article : article[i] \in {"B", "é", "-"}

-----------------------------------------------------------------------------
(* Claims about the classifier: the counts returned by initialization *)

\* the last call really loaded the catalog file: a reload, or a first initialization
FreshLoad ==
    /\ lastInit # NULL
    /\ lastInit.success
    /\ ~(lastInit.call = "initialize" /\ lastInit.wasInitialized)

\* C26: after a successful initialization, queryCount equals parseSuccessCount, the
\* catalog holds one rule per row whose Query parsed without throwing, and
\* parseSuccessCount + parseFailCount is the number of loaded rows
C26_CountsAgree ==
    FreshLoad
        => /\ lastInit.queryCount = lastInit.parseSuccessCount
           /\ Len(brandQueries)
                = Cardinality({i \in DOMAIN csvFile.rows : ~compileRow(csvFile.rows[i]).threw})
           /\ lastInit.parseSuccessCount + lastInit.parseFailCount = Len(csvFile.rows)

-----------------------------------------------------------------------------
(* Claims about the ingestion queue: classification and the processed       *)
(* container                                                                *)

\* the drains under way and the last one that finished
Batches == drains \cup (IF lastBatch = NULL THEN {} ELSE {lastBatch.drain})

\* title + " " + content of a queued record; a record without title has title ''
Combined(item) ==
    Str((IF "title" \in DOMAIN item THEN item.title ELSE <<>>) \o <<" ">> \o item.content)

\* the rules of the ready catalog that match the record's combined text
RuleHits(item) == IF isInitialized THEN Hits(Combined(item)) ELSE {}

ClassificationFields == {"topic", "subTopic", "queryName", "internalId"}

\* doc carries the classification fields of the first of the matching rules
Classified(doc, hits) ==
    /\ ClassificationFields \subseteq DOMAIN doc
    /\ [f \in ClassificationFields |-> doc[f]] = classificationOf(brandQueries[FirstOf(hits)])

\* doc is item plus the classification fields
CarriesOriginal(doc, item, hits) ==
    /\ \A f \in DOMAIN item : f \in DOMAIN doc /\ doc[f] = item[f]
    /\ Classified(doc, hits)

\* a create was called for the record iff some rule matched it
WrittenIffMatched(item, p, hits) ==
    /\ (p.status # "unmatched") <=> (hits # {})
    /\ (item.id \in Range(processedCreates)) <=> (hits # {})
    /\ \A doc \in kwatchProcessedContainer : doc.id = item.id => hits # {}

CopiedFields == {"id", "platform", "query", "datetime", "link", "author", "content",
                 "sentiment", "receivedAt"}

\* doc is the copied fields of item, an empty title and the classification fields;
\* the 'processed' flag of item is not carried over
CarriesCopied(doc, item, hits) ==
    /\ DOMAIN doc = CopiedFields \cup {"title"} \cup ClassificationFields
    /\ \A f \in CopiedFields : doc[f] = item[f]
    /\ doc.title = ""
    /\ Classified(doc, hits)

Calls(creates, id) == Cardinality({k \in DOMAIN creates : creates[k] = id})

\* C23: a 409 conflict from the processed container for one record raises no error
\* out of the drain, is not retried, does not keep the other records of the batch
\* from being classified and written, and the record is reported like one whose
\* processed write succeeded (it counts as classified in the batch report)
C23_ConflictAsSuccess ==
    (lastBatch # NULL
       /\ \E i \in DOMAIN lastBatch.drain.batch :
              lastBatch.drain.processed[i].status = "conflict")
        => /\ \A i \in DOMAIN lastBatch.drain.batch :
                /\ lastBatch.drain.processed[i].status
                       \in {"created", "conflict", "failed", "unmatched"}
                /\ Calls(processedCreates, lastBatch.drain.batch[i].id) <= 1
           /\ lastBatch.matchedCount
                = Cardinality({i \in DOMAIN lastBatch.drain.batch :
                                  lastBatch.drain.processed[i].status
                                      \in {"created", "conflict"}})

-----------------------------------------------------------------------------
(* A backlog: more records arrive than one drain takes.  Every record has   *)
(* the same unmatched content and the raw creates of a batch are fulfilled  *)
(* in batch order.                                                          *)

MaxBacklog == 12    \* most documents the webhook accepts while a backlog builds up

BacklogWebhook == nextId <= MaxBacklog /\ Post(Body(<<"x">>))

BacklogSettle ==
    \E d \in drains : \E i \in DOMAIN d.batch :
        /\ \A j \in 1..(i - 1) : d.raw[j] # "pending"
        /\ RawSettle(d, i, "fulfilled")

NextBacklog == BacklogWebhook \/ ProcessKWatchQueue \/ BacklogSettle

SpecBacklog == InitQueue /\ [][NextBacklog]_vars

\* C24: a drain removes the first min(10, n) records of the queue, in arrival order,
\* as its batch and leaves the others in the queue in their order; nothing else
\* removes a record, and no step from an idle empty queue sets the in-flight flag
C24_BatchOfTen ==
    [][/\ Len(kwatchQueue') < Len(kwatchQueue)
            => /\ ~isProcessingQueue /\ isProcessingQueue'
               /\ \E k \in 1..10 :
                    /\ k = Min(10, Len(kwatchQueue))
                    /\ kwatchQueue' = SubSeq(kwatchQueue, k + 1, Len(kwatchQueue))
                    /\ drains' \ drains = {Drain(SubSeq(kwatchQueue, 1, k))}
       /\ Len(kwatchQueue') >= Len(kwatchQueue)
            => SubSeq(kwatchQueue', 1, Len(kwatchQueue)) = kwatchQueue
       /\ (TickStep /\ ~isProcessingQueue /\ kwatchQueue # <<>>)
            => Len(kwatchQueue') < Len(kwatchQueue)
       /\ (kwatchQueue = <<>> /\ ~isProcessingQueue)
            => (~isProcessingQueue' /\ drains' = drains)]_vars

\* a tick found twelve records, took ten as its batch and left the eleventh and the
\* twelfth in the queue
C24_Witness ==
    /\ lastTick # NULL
    /\ lastTick.started /\ lastTick.pending = 12
    /\ \E d \in drains : [i \in DOMAIN d.batch |-> d.batch[i].id] = [i \in 1..10 |-> i]
    /\ [i \in DOMAIN kwatchQueue |-> kwatchQueue[i].id] = <<11, 12>>

-----------------------------------------------------------------------------
(* The webhook on its own: bodies with any of the fields absent, posted     *)
(* while ticks start drains whose store writes are still under way.         *)

WebhookBodies ==
    [platform : {"", "reddit"}, query : {"", "brand"}, datetime : {"", "t"},
     link : {"", "l"}, author : {"", "u"}, content : {<<>>, <<"a">>},
     sentiment : {"", "positive"}]

NextWebhook ==
    \/ \E payload \in WebhookBodies : Webhook(payload)
    \/ ProcessKWatchQueue

SpecWebhook == InitQueue /\ [][NextWebhook]_vars

\* platform, query, datetime, link, author and content are all there
Complete(body) ==
    \A f \in {"platform", "query", "datetime", "link", "author"} : body[f] # ""

\* the record the webhook is to queue for this body, but for id and time stamp
Queued(doc, body) ==
    /\ \A f \in {"platform", "query", "datetime", "link", "author", "content"} :
           doc[f] = body[f]
    /\ doc.sentiment = (IF body.sentiment = "" THEN "neutral" ELSE body.sentiment)

\* C25: the webhook answers 200 exactly when it has appended one record to the
\* queue, whatever the state of the drains, and answers 400 and appends nothing
\* when platform, query, datetime, link, author or content is missing; a missing
\* sentiment is stored as 'neutral'
C25_WebhookResponse ==
    [][\A body \in WebhookBodies :
           Post(body)
               => /\ IF Complete(body) /\ body.content # <<>>
                     THEN /\ webhookStatus' = 200
                          /\ Len(kwatchQueue') = Len(kwatchQueue) + 1
                          /\ SubSeq(kwatchQueue', 1, Len(kwatchQueue)) = kwatchQueue
                          /\ Queued(kwatchQueue'[Len(kwatchQueue')], body)
                     ELSE /\ webhookStatus' = 400
                          /\ kwatchQueue' = kwatchQueue
                  /\ drains' = drains
                  /\ isProcessingQueue' = isProcessingQueue
                  /\ kwatchContainer' = kwatchContainer]_vars

\* a body without sentiment was answered with 200 while a drain was in flight, and
\* its record waits in the queue with sentiment 'neutral'
C25_Witness ==
    /\ webhookStatus = 200
    /\ drains # {}
    /\ kwatchQueue # <<>>
    /\ kwatchQueue[Len(kwatchQueue)].sentiment = "neutral"
    /\ kwatchQueue[Len(kwatchQueue)].id = nextId - 1

-----------------------------------------------------------------------------
(* Claims about the ingestion queue: interleavings *)

\* the ids of the documents of a sequence
Ids(docs) == [i \in DOMAIN docs |-> docs[i].id]

\* how many of the drains under way hold this id in their batch
InBatches(id) == Cardinality({d \in drains : Calls(Ids(d.batch), id) > 0})

\* the batch of drain d is the same after the step, in flight or just finished
BatchKept(d) ==
    \/ \E d2 \in drains' : d2.batch = d.batch
    \/ lastBatch' # NULL /\ lastBatch'.drain.batch = d.batch

\* C27: whatever the interleaving of webhooks, ticks and store completions, every
\* accepted record is either still in the queue, once, or was spliced off once into
\* one batch with one raw create called for it, never again after a rejection; the
\* batch of a drain in flight never changes, so a record that arrives meanwhile
\* stays in the queue
C27_ExactlyOnce ==
    /\ [](\A id \in 1..(nextId - 1) :
              /\ Calls(Ids(kwatchQueue), id) + Calls(rawCreates, id) = 1
              /\ InBatches(id) <= Calls(rawCreates, id)
              /\ \A d \in drains : Calls(Ids(d.batch), id) <= 1)
    /\ [][/\ \A d \in drains : BatchKept(d)
          /\ \A k \in DOMAIN rawCreates : rawCreates'[k] = rawCreates[k]
          /\ (drains # {} /\ nextId' # nextId)
                => /\ kwatchQueue' = Append(kwatchQueue, kwatchQueue'[Len(kwatchQueue')])
                   /\ kwatchQueue'[Len(kwatchQueue')].id = nextId
                   /\ drains' = drains
                   /\ rawCreates' = rawCreates]_vars

\* a record arrived while a drain was in flight and waits in the queue; a raw create
\* of that drain was rejected and has not been called again
C27_Witness ==
    /\ webhookStatus = 200
    /\ kwatchQueue # <<>>
    /\ \E d \in drains :
           /\ \A i \in DOMAIN d.batch : d.batch[i].id < kwatchQueue[1].id
           /\ \E i \in DOMAIN d.batch :
                  d.raw[i] = "rejected" /\ Calls(rawCreates, d.batch[i].id) = 1
    /\ Calls(rawCreates, kwatchQueue[1].id) = 0

\* C28: within a drain, no record of the batch is classified or written to the
\* processed container before the raw creates of all records of the batch have
\* settled
C28_RawBeforeProcessed ==
    \A d \in drains :
        ~rawSettled(d)
            => \A i \in DOMAIN d.batch :
                 /\ d.processed[i].status = "waiting"
                 /\ Calls(processedCreates, d.batch[i].id) = 0
                 /\ \A doc \in kwatchProcessedContainer : doc.id # d.batch[i].id

\* a batch of two records that match a rule: the raw create of the first has
\* settled, the second is still under way, and neither has been classified
C28_Witness ==
    \E d \in drains :
        /\ Len(d.batch) = 2
        /\ d.raw[1] # "pending" /\ d.raw[2] = "pending"
        /\ \A i \in DOMAIN d.batch : RuleHits(d.batch[i]) # {}
        /\ \A i \in DOMAIN d.batch : d.processed[i].status = "waiting"

\* the processed creates of these drains that were rejected with an error other than 409
FailedWrites(ds) ==
    UNION {{d.batch[i].id : i \in {j \in DOMAIN d.batch : d.processed[j].status = "failed"}} :
               d \in ds}

\* C30: the classification phase covers every record of the batch whatever the
\* outcome of its raw create: a record whose raw create was rejected is classified
\* and, if matched, a processed create is called for it; and a processed create
\* that fails neither removes nor alters a record of the raw container
C30_PhasesIndependent ==
    /\ [](\A d \in Batches :
              rawSettled(d)
                  => \A i \in {j \in DOMAIN d.batch : d.raw[j] = "rejected"} :
                       /\ d.processed[i].status # "waiting"
                       /\ (d.processed[i].status # "unmatched")
                              <=> (RuleHits(d.batch[i]) # {})
                       /\ Calls(processedCreates, d.batch[i].id)
                              = (IF d.processed[i].status # "unmatched" THEN 1 ELSE 0))
    /\ [][/\ kwatchContainer \subseteq kwatchContainer'
          /\ ~(FailedWrites(Batches') \subseteq FailedWrites(Batches))
                => kwatchContainer' = kwatchContainer]_vars

\* a finished batch with a matched record whose raw create was rejected and whose
\* processed create succeeded, and a record in the raw container whose processed
\* create failed
C30_Witness ==
    /\ lastBatch # NULL
    /\ \E i, j \in DOMAIN lastBatch.drain.batch :
           /\ lastBatch.drain.raw[i] = "rejected"
           /\ lastBatch.drain.processed[i].status = "created"
           /\ lastBatch.drain.processed[i].document \in kwatchProcessedContainer
           /\ lastBatch.drain.batch[i] \notin kwatchContainer
           /\ lastBatch.drain.raw[j] = "fulfilled"
           /\ lastBatch.drain.processed[j].status = "failed"
           /\ lastBatch.drain.batch[j] \in kwatchContainer

-----------------------------------------------------------------------------
(* The ingestion queue with a timer that keeps ticking and a store whose    *)
(* calls all settle.                                                        *)

\* a create on the raw container has not settled yet
RawPending == \E d \in drains : \E i \in DOMAIN d.batch : d.raw[i] = "pending"

\* a create on the processed container has not settled yet
ProcessedPending ==
    \E d \in drains : \E i \in DOMAIN d.batch : d.processed[i].status = "pending"

\* setInterval keeps calling processKWatchQueue, and no create stays unsettled for
\* ever
SpecQueueLive ==
    /\ SpecQueue
    /\ WF_vars(ProcessKWatchQueue)
    /\ []<>(~RawPending)
    /\ []<>(~ProcessedPending)

\* C29: every drain that starts finishes and resets the in-flight flag, whether its
\* store writes succeed, conflict or fail, and a queue that holds records becomes
\* empty
C29_DrainsFinish ==
    /\ isProcessingQueue ~> ~isProcessingQueue
    /\ (kwatchQueue # <<>>) ~> (kwatchQueue = <<>>)

\* a drain with a rejected raw create, a 409 and a failed processed create has
\* finished: the flag is reset and the queue is empty
C29_Witness ==
    /\ lastBatch # NULL
    /\ ~isProcessingQueue /\ drains = {}
    /\ kwatchQueue = <<>>
    /\ \E i \in DOMAIN lastBatch.drain.batch : lastBatch.drain.raw[i] = "rejected"
    /\ \E i \in DOMAIN lastBatch.drain.batch :
           lastBatch.drain.processed[i].status = "conflict"
    /\ \E i \in DOMAIN lastBatch.drain.batch :
           lastBatch.drain.processed[i].status = "failed"

====
